---- MODULE Spec2Model ----
(***************************************************************************)
(* A model of blivet's StorageDevice (blivet/devices/storage.py): the      *)
(* guarded create/setup/teardown/destroy state machine, the three-way size *)
(* model, the format binding and the properties derived from the parent    *)
(* graph.                                                                  *)
(*                                                                         *)
(* The heap is the variable `devices` (one record per device object), the  *)
(* operating system is `node` (whether os.access(path, W_OK) holds for the *)
(* device node), `flags` is blivet.flags (flags.testing) and `last` is what *)
(* the caller of the last operation saw:                                   *)
(* the operation, its arguments, the exception it raised (if any) and the  *)
(* calls it made, in order.                                                *)
(***************************************************************************)
EXTENDS Integers, Sequences, FiniteSets, TLC

VARIABLES devices, node, flags, last

vars == <<devices, node, flags, last>>

\* The number of device objects.
NumDevs == 3
\* Sizes are 0..MaxSize (Size(0) is the distinguished zero).
MaxSize == 2
\* The devices the lifecycle specification operates on are 1..NumLife.
NumLife == 2

\* The granule of the device type that aligns its sizes.
Granule == 2

Devs == 1..NumDevs
Sizes == 0..MaxSize

\* The name of no device.
NoDev == 0

\* StorageDevice.path: "%s/%s" % (self._devDir, self.name); a device is named
\* by its number.
path(d) == <<"/dev", d>>

NoPath == <<>>

(***************************************************************************)
(* The format collaborator (blivet.formats, not part of this file).  A     *)
(* string of comma-separated mount options is represented by the list of   *)
(* its fields, as str.split(",") returns it: "" is <<"">>.                  *)
(***************************************************************************)
\* getFormat(None, device=..., exists=...): the distinguished empty format.
getFormat(device, fexists) ==
    [type |-> "none", exists |-> fexists, status |-> FALSE,
     minSize |-> 0, maxSize |-> 0, resizable |-> FALSE,
     mountable |-> FALSE, options |-> <<"">>, device |-> device]

\* The format instances a caller may hand to the constructor or to the format
\* setter: a mountable, resizable filesystem with size bounds and a format
\* with neither, each planned, existing, or existing and active.
NewFormats ==
    { [type |-> t, exists |-> es[1], status |-> es[2],
       minSize |-> IF t = "ext4" THEN 1 ELSE 0,
       maxSize |-> IF t = "ext4" THEN MaxSize - 1 ELSE 0,
       resizable |-> (t = "ext4"), mountable |-> (t = "ext4"),
       options |-> <<"defaults">>, device |-> NoPath]
      : t \in {"ext4", "swap"},
        es \in {<<FALSE, FALSE>>, <<TRUE, FALSE>>, <<TRUE, TRUE>>} }

\* None, the argument that stands for "no format".
None == [type |-> "None"]

FormatArgs == NewFormats \cup {None}

(***************************************************************************)
(* Exceptions.  `exc` is the Python class, `kind` the spec's error kind,   *)
(* `name` the device name the exception carries (NoDev when it carries     *)
(* none).                                                                  *)
(***************************************************************************)
NoErr == [exc |-> "none", kind |-> "none", name |-> NoDev]

DeviceError(kind, name) == [exc |-> "DeviceError", kind |-> kind, name |-> name]

ValueError(kind) == [exc |-> "ValueError", kind |-> kind, name |-> NoDev]

PrimitiveError(prim, d) == [exc |-> "PrimitiveError", kind |-> prim, name |-> d]

(***************************************************************************)
(* A world is the state an operation threads through its steps:            *)
(*   dev, node   the heap and the device nodes,                            *)
(*   err         the exception in flight (NoErr when none),                *)
(*   trace       the calls made so far,                                    *)
(*   inp         what the environment does during the operation:           *)
(*     raises    the primitive call <<name, device>> that raises, if made, *)
(*     effective whether the type-specific primitives act on the device    *)
(*               node (a subclass's) or are the base type's `pass`,        *)
(*     obs       what readCurrentSize reads from sysfs while the device    *)
(*               exists.                                                   *)
(***************************************************************************)
Raised(w) == w.err # NoErr

Raise(w, e) == [w EXCEPT !.err = e]

Log(w, ev, d) == [w EXCEPT !.trace = Append(@, <<ev, d>>)]

World(inp) ==
    [dev |-> devices, node |-> node, err |-> NoErr, trace |-> <<>>, inp |-> inp, ret |-> TRUE]

NoRaise == <<"none", NoDev>>

Primitives == {"_setup", "_teardown", "_create", "_destroy"}

\* One of the overridable primitives _setup/_teardown/_create/_destroy: `pass`
\* in the base type; a subclass's may raise, and acts on the device node.
Primitive(w, prim, d) ==
    LET w1 == Log(w, prim, d) IN
    IF w.inp.raises = <<prim, d>> THEN Raise(w1, PrimitiveError(prim, d))
    ELSE IF ~w.inp.effective THEN w1
    ELSE [w1 EXCEPT !.node[d] = (prim \in {"_setup", "_create"})]

\* Exception propagation: a step runs only if nothing has been raised.
Try(w, Step(_)) == IF Raised(w) THEN w ELSE Step(w)

(***************************************************************************)
(* The graph node base (blivet.devices.device.Device, not part of this     *)
(* file): parents, the child count and the ancestors.                      *)
(***************************************************************************)
\* Device.parents, as a set.
ParentSet(dev, d) == {dev[d].parents[i] : i \in 1..Len(dev[d].parents)}

\* Device.ancestors: the devices reachable through parents (the device itself
\* is not one of them).
RECURSIVE AncestorsWithin(_, _, _)
AncestorsWithin(dev, d, n) ==
    IF n = 0 THEN {}
    ELSE ParentSet(dev, d) \cup
         UNION {AncestorsWithin(dev, p, n - 1) : p \in ParentSet(dev, d)}

ancestors(dev, d) == AncestorsWithin(dev, d, NumDevs)

\* Device.isleaf
isleaf(dev, d) == dev[d].kids = 0

\* Device.addChild on every parent, in order.
RECURSIVE addChildren(_, _, _)
addChildren(dev, ps, i) ==
    IF i > Len(ps) THEN dev
    ELSE addChildren([dev EXCEPT ![ps[i]].kids = @ + 1], ps, i + 1)

\* Device.removeChild on every parent, in order.
RECURSIVE removeChildren(_, _, _)
removeChildren(dev, ps, i) ==
    IF i > Len(ps) THEN dev
    ELSE removeChildren([dev EXCEPT ![ps[i]].kids = @ - 1], ps, i + 1)

\* Device.parents.remove(parents[i]): the parent leaves the list and loses a
\* child.
removeParent(dev, d, i) ==
    LET ps == dev[d].parents
        rest == [j \in 1..(Len(ps) - 1) |-> IF j < i THEN ps[j] ELSE ps[j + 1]]
    IN [dev EXCEPT ![d].parents = rest, ![ps[i]].kids = @ - 1]

(***************************************************************************)
(* Properties derived from the parent graph.                               *)
(***************************************************************************)
\* encrypted that looks at the device and its parents only.
encrypted_parentsOnly(dev, d) ==
    dev[d]._encrypted \/ \E i \in 1..Len(dev[d].parents) : dev[dev[d].parents[i]]._encrypted

RECURSIVE encrypted(_, _)
encrypted(dev, d) ==
    dev[d]._encrypted \/ \E i \in 1..Len(dev[d].parents) : encrypted(dev, dev[d].parents[i])

RECURSIVE growable(_, _)
growable(dev, d) ==
    dev[d].req_grow \/ \E i \in 1..Len(dev[d].parents) : growable(dev, dev[d].parents[i])

\* readonly that looks at the device's own flag only.
readonly_ownFlag(dev, d) == dev[d]._readonly

RECURSIVE readonly(_, _)
readonly(dev, d) ==
    dev[d]._readonly \/ \E i \in 1..Len(dev[d].parents) : readonly(dev, dev[d].parents[i])

\* protected that looks at the device's own flag only.
protected_ownFlag(dev, d) == dev[d]._protected

protected(dev, d) == readonly(dev, d) \/ dev[d]._protected

\* StorageDevice.status
status(w, d) == IF ~w.dev[d].exists THEN FALSE ELSE w.node[d]

\* resizable that does not look at the type of the device.
resizable_anyType(dev, d) ==
    dev[d].exists /\
    (dev[d]._format.type = "none" \/ dev[d]._format.resizable \/ ~dev[d]._format.exists)

\* StorageDevice.resizable
resizable(dev, d) ==
    dev[d]._resizable /\ dev[d].exists /\
    (dev[d]._format.type = "none" \/ dev[d]._format.resizable \/ ~dev[d]._format.exists)

(***************************************************************************)
(* The size model.                                                         *)
(***************************************************************************)
\* StorageDevice.alignTargetSize: the proposed size, as it is.
alignTargetSize(newsize) == newsize

\* The override of a device type that aligns its sizes: the proposed size
\* rounded down to a multiple of the type's granule.
alignDown(granule, newsize) == newsize - (newsize % granule)

\* self.alignTargetSize(newsize): a type without a granule inherits the
\* method of StorageDevice.
aligned(dev, d, newsize) ==
    IF dev[d].granule = 0 THEN alignTargetSize(newsize)
    ELSE alignDown(dev[d].granule, newsize)

\* readCurrentSize: the sysfs size of an existing device, else Size(0).
readCurrentSize(w, d) == IF w.dev[d].exists THEN w.inp.obs ELSE 0

\* The currentSize getter that probes at every read.
currentSize_probing(w, d) ==
    Log([w EXCEPT !.dev[d]._currentSize = readCurrentSize(w, d)], "readCurrentSize", d)

\* The currentSize getter: probes while the cached value is Size(0).  The
\* value it returns is _currentSize of the world it yields.
currentSize(w, d) ==
    IF w.dev[d]._currentSize = 0
    THEN Log([w EXCEPT !.dev[d]._currentSize = readCurrentSize(w, d)], "readCurrentSize", d)
    ELSE w

\* updateSize that leaves the target size as planned.
updateSize_keepsTarget(w, d) ==
    LET w1 == currentSize([w EXCEPT !.dev[d]._currentSize = 0], d)
        new_size == w1.dev[d]._currentSize
    IN Log([w1 EXCEPT !.dev[d]._size = new_size], "updateSize", d)

updateSize(w, d) ==
    LET w1 == currentSize([w EXCEPT !.dev[d]._currentSize = 0], d)
        new_size == w1.dev[d]._currentSize
    IN Log([w1 EXCEPT !.dev[d]._size = new_size, !.dev[d]._targetSize = new_size],
           "updateSize", d)

\* The minSize getter: the world after the read, and the value read.
minSizeRead(w, d) == IF resizable(w.dev, d) THEN w ELSE currentSize(w, d)

minSize(w, d) ==
    IF resizable(w.dev, d) THEN aligned(w.dev, d, w.dev[d]._format.minSize)
    ELSE currentSize(w, d).dev[d]._currentSize

\* maxSize that is the bound of the format whatever the device.
maxSize_ofFormat(w, d) == aligned(w.dev, d, w.dev[d]._format.maxSize)

\* The maxSize getter: the world after the read, and the value read.
maxSizeRead(w, d) == IF resizable(w.dev, d) THEN w ELSE currentSize(w, d)

maxSize(w, d) ==
    IF resizable(w.dev, d) THEN aligned(w.dev, d, w.dev[d]._format.maxSize)
    ELSE currentSize(w, d).dev[d]._currentSize

_getTargetSize(dev, d) == dev[d]._targetSize

\* _setTargetSize that checks the bounds and not the alignment.
_setTargetSize_unaligned(w, d, newsize) ==
    LET w1 == maxSizeRead(w, d)
        w2 == minSizeRead(w1, d)
    IN IF maxSize(w, d) # 0 /\ newsize > maxSize(w, d)
       THEN Raise(w1, ValueError("SizeOutOfBounds"))
       ELSE IF minSize(w1, d) # 0 /\ newsize < minSize(w1, d)
       THEN Raise(w2, ValueError("SizeOutOfBounds"))
       ELSE [w2 EXCEPT !.dev[d]._targetSize = newsize]

_setTargetSize(w, d, newsize) ==
    LET w1 == maxSizeRead(w, d)
        w2 == minSizeRead(w1, d)
    IN IF maxSize(w, d) # 0 /\ newsize > maxSize(w, d)
       THEN Raise(w1, ValueError("SizeOutOfBounds"))
       ELSE IF minSize(w1, d) # 0 /\ newsize < minSize(w1, d)
       THEN Raise(w2, ValueError("SizeOutOfBounds"))
       ELSE IF aligned(w.dev, d, newsize) # newsize
       THEN Raise(w2, ValueError("AlignmentViolation"))
       ELSE [w2 EXCEPT !.dev[d]._targetSize = newsize]

\* _getSize that returns the target size of a resizable device even when it
\* is Size(0).
_getSize_anyTarget(dev, d) ==
    IF dev[d].exists /\ resizable(dev, d)
    THEN _getTargetSize(dev, d)
    ELSE dev[d]._size

_getSize(dev, d) ==
    IF dev[d].exists /\ resizable(dev, d) /\ _getTargetSize(dev, d) # 0
    THEN _getTargetSize(dev, d)
    ELSE dev[d]._size

\* _setSize whose errors do not name the device.
_setSize_unnamed(w, d, newsize) ==
    LET max_size == w.dev[d]._format.maxSize
        min_size == w.dev[d]._format.minSize
    IN IF ~w.dev[d].exists /\ max_size # 0 /\ newsize > max_size
       THEN Raise(w, DeviceError("SizeOutOfBounds", NoDev))
       ELSE IF ~w.dev[d].exists /\ min_size # 0 /\ newsize < min_size
       THEN Raise(w, DeviceError("SizeOutOfBounds", NoDev))
       ELSE [w EXCEPT !.dev[d]._size = newsize]

\* _setSize that checks the bounds for existing devices too.
_setSize_checked(w, d, newsize) ==
    LET max_size == w.dev[d]._format.maxSize
        min_size == w.dev[d]._format.minSize
    IN IF max_size # 0 /\ newsize > max_size
       THEN Raise(w, DeviceError("SizeOutOfBounds", d))
       ELSE IF min_size # 0 /\ newsize < min_size
       THEN Raise(w, DeviceError("SizeOutOfBounds", d))
       ELSE [w EXCEPT !.dev[d]._size = newsize]

_setSize(w, d, newsize) ==
    LET max_size == w.dev[d]._format.maxSize
        min_size == w.dev[d]._format.minSize
    IN IF ~w.dev[d].exists /\ max_size # 0 /\ newsize > max_size
       THEN Raise(w, DeviceError("SizeOutOfBounds", d))
       ELSE IF ~w.dev[d].exists /\ min_size # 0 /\ newsize < min_size
       THEN Raise(w, DeviceError("SizeOutOfBounds", d))
       ELSE [w EXCEPT !.dev[d]._size = newsize]

\* StorageDevice.resize
resize(w, d) ==
    IF w.dev[d]._resizable
    THEN Raise(Log(w, "resize", d), [exc |-> "NotImplementedError", kind |-> "NotImplemented", name |-> NoDev])
    ELSE Raise(Log(w, "resize", d), DeviceError("UnsupportedOperation", NoDev))

(***************************************************************************)
(* The format binding.                                                     *)
(***************************************************************************)
\* ",".join(option_list), as the list of the joined string's fields.
Join(option_list) == IF option_list = <<>> THEN <<"">> ELSE option_list

\* list.remove(x): the list without the first occurrence of x.
RECURSIVE Remove(_, _)
Remove(l, x) ==
    IF l = <<>> THEN <<>>
    ELSE IF Head(l) = x THEN Tail(l)
    ELSE <<Head(l)>> \o Remove(Tail(l), x)

\* _updateNetDevMountOption that adds the option and never takes it away.
_updateNetDevMountOption_addOnly(w, d) ==
    IF ~w.dev[d]._format.mountable THEN w
    ELSE LET netdev_option == "_netdev"
             option_list == w.dev[d]._format.options
             is_netdev == \E a \in ancestors(w.dev, d) : w.dev[a].isNetwork
             has_netdev_option == \E i \in 1..Len(option_list) : option_list[i] = netdev_option
         IN IF is_netdev /\ ~has_netdev_option
            THEN [w EXCEPT !.dev[d]._format.options = Join(Append(option_list, netdev_option))]
            ELSE w

_updateNetDevMountOption(w, d) ==
    IF ~w.dev[d]._format.mountable THEN w
    ELSE LET netdev_option == "_netdev"
             option_list == w.dev[d]._format.options
             is_netdev == \E a \in ancestors(w.dev, d) : w.dev[a].isNetwork
             has_netdev_option == \E i \in 1..Len(option_list) : option_list[i] = netdev_option
         IN IF ~is_netdev /\ has_netdev_option
            THEN [w EXCEPT !.dev[d]._format.options = Join(Remove(option_list, netdev_option))]
            ELSE IF is_netdev /\ ~has_netdev_option
            THEN [w EXCEPT !.dev[d]._format.options = Join(Append(option_list, netdev_option))]
            ELSE w

\* _setFormat that replaces an active format.
_setFormat_active(w, d, arg) ==
    LET fmt == IF arg = None THEN getFormat(path(d), w.dev[d].exists) ELSE arg
        size == _getSize(w.dev, d)
    IN IF ~fmt.exists /\ fmt.maxSize # 0 /\ fmt.maxSize < size
       THEN Raise(w, DeviceError("SizeOutOfBounds", NoDev))
       ELSE IF ~fmt.exists /\ fmt.minSize # 0 /\ fmt.minSize > size
       THEN Raise(w, DeviceError("SizeOutOfBounds", NoDev))
       ELSE _updateNetDevMountOption(
                [w EXCEPT !.dev[d]._format = [fmt EXCEPT !.device = path(d)]], d)

\* _setFormat that does not check the size of the device.
_setFormat_unbounded(w, d, arg) ==
    LET fmt == IF arg = None THEN getFormat(path(d), w.dev[d].exists) ELSE arg
    IN IF w.dev[d]._format.status
       THEN Raise(w, DeviceError("ActiveFormat", d))
       ELSE _updateNetDevMountOption(
                [w EXCEPT !.dev[d]._format = [fmt EXCEPT !.device = path(d)]], d)

\* _setFormat that takes None for no assignment.
_setFormat_ignoresNone(w, d, arg) ==
    LET fmt == IF arg = None THEN w.dev[d]._format ELSE arg
        size == _getSize(w.dev, d)
    IN IF w.dev[d]._format.status
       THEN Raise(w, DeviceError("ActiveFormat", d))
       ELSE IF ~fmt.exists /\ fmt.maxSize # 0 /\ fmt.maxSize < size
       THEN Raise(w, DeviceError("SizeOutOfBounds", NoDev))
       ELSE IF ~fmt.exists /\ fmt.minSize # 0 /\ fmt.minSize > size
       THEN Raise(w, DeviceError("SizeOutOfBounds", NoDev))
       ELSE _updateNetDevMountOption(
                [w EXCEPT !.dev[d]._format = [fmt EXCEPT !.device = path(d)]], d)

_setFormat(w, d, arg) ==
    LET fmt == IF arg = None THEN getFormat(path(d), w.dev[d].exists) ELSE arg
        size == _getSize(w.dev, d)
    IN IF w.dev[d]._format.status
       THEN Raise(w, DeviceError("ActiveFormat", d))
       ELSE IF ~fmt.exists /\ fmt.maxSize # 0 /\ fmt.maxSize < size
       THEN Raise(w, DeviceError("SizeOutOfBounds", NoDev))
       ELSE IF ~fmt.exists /\ fmt.minSize # 0 /\ fmt.minSize > size
       THEN Raise(w, DeviceError("SizeOutOfBounds", NoDev))
       ELSE _updateNetDevMountOption(
                [w EXCEPT !.dev[d]._format = [fmt EXCEPT !.device = path(d)]], d)

\* DeviceFormat.setup / DeviceFormat.teardown on the format held in `field`.
formatSetup(w, d, field) ==
    Log([w EXCEPT !.dev[d][field].status = TRUE], "format.setup", d)

formatTeardown(w, d, field) ==
    Log([w EXCEPT !.dev[d][field].status = FALSE],
        IF field = "_format" THEN "format.teardown" ELSE "originalFormat.teardown", d)

(***************************************************************************)
(* The lifecycle: setup, teardown, create, destroy.  `ret` is the value a  *)
(* precondition hook returns (whether the operation should proceed).       *)
(***************************************************************************)
Return(w, v) == [w EXCEPT !.ret = v]

\* udev.settle()
settle(w, d) == Log(w, "settle", d)

updateSysfsPath(w, d) ==
    IF ~w.dev[d].exists THEN Raise(w, DeviceError("NotCreated", d))
    ELSE Log(w, "updateSysfsPath", d)

RECURSIVE setup(_, _, _)
RECURSIVE setupParentsFrom(_, _, _, _)
RECURSIVE teardown(_, _, _)
RECURSIVE teardownParentsFrom(_, _, _, _)

\* The loop of setupParents, from the i-th parent on.
setupParentsFrom(w, d, orig, i) ==
    IF Raised(w) \/ i > Len(w.dev[d].parents) THEN w
    ELSE LET parent == w.dev[d].parents[i]
             w1 == setup(w, parent, orig)
             _format == IF orig THEN w1.dev[parent].originalFormat ELSE w1.dev[parent]._format
             w2 == IF ~Raised(w1) /\ _format.type # "none" /\ _format.exists
                   THEN formatSetup(w1, parent, IF orig THEN "originalFormat" ELSE "_format")
                   ELSE w1
         IN setupParentsFrom(w2, d, orig, i + 1)

\* setupParents that goes over the parents a second time.
setupParents_twice(w, d, orig) ==
    setupParentsFrom(setupParentsFrom(Log(w, "setupParents", d), d, orig, 1), d, orig, 1)

setupParents(w, d, orig) == setupParentsFrom(Log(w, "setupParents", d), d, orig, 1)

\* _preSetup that proceeds whatever the status of the device.
_preSetup_always(w, d, orig) ==
    IF ~w.dev[d].exists THEN Raise(w, DeviceError("NotCreated", d))
    ELSE Return(setupParents(w, d, orig), TRUE)

\* _preSetup that does not look at controllable.
_preSetup_uncontrolled(w, d, orig) ==
    IF ~w.dev[d].exists THEN Raise(w, DeviceError("NotCreated", d))
    ELSE IF status(w, d) THEN Return(w, FALSE)
    ELSE Return(setupParents(w, d, orig), TRUE)

\* _preSetup without its check of exists.
_preSetup_unchecked(w, d, orig) ==
    IF status(w, d) \/ ~w.dev[d].controllable THEN Return(w, FALSE)
    ELSE Return(setupParents(w, d, orig), TRUE)

_preSetup(w, d, orig) ==
    IF ~w.dev[d].exists THEN Raise(w, DeviceError("NotCreated", d))
    ELSE IF status(w, d) \/ ~w.dev[d].controllable THEN Return(w, FALSE)
    ELSE Return(setupParents(w, d, orig), TRUE)

_postSetup(w, d) ==
    LET w1 == updateSysfsPath(settle(Log(w, "_postSetup", d), d), d)
    IN IF ~Raised(w1) /\ w1.dev[d]._size = 0 THEN updateSize(w1, d) ELSE w1

setup(w, d, orig) ==
    LET w1 == _preSetup(Log(w, "setup", d), d, orig)
    IN IF Raised(w1) \/ ~w1.ret THEN w1
       ELSE Try(Primitive(w1, "_setup", d), LAMBDA x : _postSetup(x, d))

\* The loop of Device.teardownParents, from the i-th parent on.
teardownParentsFrom(w, d, recursive, i) ==
    IF Raised(w) \/ i > Len(w.dev[d].parents) THEN w
    ELSE teardownParentsFrom(teardown(w, w.dev[d].parents[i], recursive), d, recursive, i + 1)

teardownParents(w, d, recursive) ==
    teardownParentsFrom(Log(w, "teardownParents", d), d, recursive, 1)

\* _preTeardown that forgets the device once it is torn down.
_preTeardown_forgets(w, d, recursive) ==
    IF ~w.dev[d].exists /\ ~recursive THEN Raise(w, DeviceError("NotCreated", d))
    ELSE IF ~status(w, d) \/ ~w.dev[d].controllable \/ protected(w.dev, d)
    THEN Return(w, FALSE)
    ELSE Return(settle([w EXCEPT !.dev[d].exists = FALSE], d), TRUE)

\* _preTeardown that does not spare a protected device.
_preTeardown_unprotected(w, d, recursive) ==
    IF ~w.dev[d].exists /\ ~recursive THEN Raise(w, DeviceError("NotCreated", d))
    ELSE IF ~status(w, d) \/ ~w.dev[d].controllable
    THEN Return(w, FALSE)
    ELSE LET w1 == IF w.dev[d].originalFormat.exists
                   THEN formatTeardown(w, d, "originalFormat") ELSE w
             w2 == IF w1.dev[d]._format.exists
                   THEN formatTeardown(w1, d, "_format") ELSE w1
         IN Return(settle(w2, d), TRUE)

_preTeardown(w, d, recursive) ==
    IF ~w.dev[d].exists /\ ~recursive THEN Raise(w, DeviceError("NotCreated", d))
    ELSE IF ~status(w, d) \/ ~w.dev[d].controllable \/ protected(w.dev, d)
    THEN Return(w, FALSE)
    ELSE LET w1 == IF w.dev[d].originalFormat.exists
                   THEN formatTeardown(w, d, "originalFormat") ELSE w
             w2 == IF w1.dev[d]._format.exists
                   THEN formatTeardown(w1, d, "_format") ELSE w1
         IN Return(settle(w2, d), TRUE)

\* _postTeardown that tears the parents down in every call.
_postTeardown_always(w, d, recursive) == teardownParents(w, d, recursive)

_postTeardown(w, d, recursive) ==
    IF recursive THEN teardownParents(w, d, recursive) ELSE w

teardown(w, d, recursive) ==
    LET w1 == _preTeardown(Log(w, "teardown", d), d, recursive)
    IN IF Raised(w1) THEN w1
       ELSE IF ~w1.ret THEN (IF recursive THEN teardownParents(w1, d, recursive) ELSE w1)
       ELSE Try(Primitive(w1, "_teardown", d), LAMBDA x : _postTeardown(x, d, recursive))

\* _preCreate without its check of exists.
_preCreate_unchecked(w, d) == setupParents(w, d, FALSE)

_preCreate(w, d) ==
    IF w.dev[d].exists THEN Raise(w, DeviceError("AlreadyExists", d))
    ELSE setupParents(w, d, FALSE)

_postCreate(w, d) ==
    LET w1 == Log([w EXCEPT !.dev[d].exists = TRUE], "_postCreate", d)
        w2 == setup(w1, d, FALSE)
        w3 == Try(w2, LAMBDA x : updateSysfsPath(x, d))
        w4 == Try(w3, LAMBDA x : updateSize(settle(x, d), d))
    IN Try(w4, LAMBDA x : _updateNetDevMountOption(Log(x, "_updateNetDevMountOption", d), d))

create(w, d) ==
    LET w1 == _preCreate(Log(w, "create", d), d)
        w2 == Try(w1, LAMBDA x : Primitive(x, "_create", d))
    IN Try(w2, LAMBDA x : _postCreate(x, d))

\* _preDestroy without its check of isleaf.
_preDestroy_anyNode(w, d) ==
    IF ~w.dev[d].exists THEN Raise(w, DeviceError("NotCreated", d))
    ELSE teardown(w, d, FALSE)

_preDestroy(w, d) ==
    IF ~w.dev[d].exists THEN Raise(w, DeviceError("NotCreated", d))
    ELSE IF ~isleaf(w.dev, d) THEN Raise(w, DeviceError("NotALeaf", d))
    ELSE teardown(w, d, FALSE)

_postDestroy(w, d) == Log([w EXCEPT !.dev[d].exists = FALSE], "_postDestroy", d)

\* destroy that runs _postDestroy whatever _destroy did.
destroy_regardless(w, d) ==
    LET w1 == _preDestroy(Log(w, "destroy", d), d)
        w2 == Try(w1, LAMBDA x : Primitive(x, "_destroy", d))
    IN IF Raised(w1) THEN w1 ELSE Raise(_postDestroy([w2 EXCEPT !.err = NoErr], d), w2.err)

destroy(w, d) ==
    LET w1 == _preDestroy(Log(w, "destroy", d), d)
        w2 == Try(w1, LAMBDA x : Primitive(x, "_destroy", d))
    IN Try(w2, LAMBDA x : _postDestroy(x, d))

\* removeHook that leaves the parents' child counts alone.
removeHook_keepCount(w, d) == w

removeHook(w, d) == [w EXCEPT !.dev = removeChildren(w.dev, w.dev[d].parents, 1)]

addHook(w, d, new) ==
    IF ~new THEN [w EXCEPT !.dev = addChildren(w.dev, w.dev[d].parents, 1)] ELSE w

(***************************************************************************)
(* Construction.                                                           *)
(***************************************************************************)
\* A slot that holds no device object yet.
Blank ==
    [built |-> FALSE, exists |-> FALSE, _size |-> 0, _targetSize |-> 0, _currentSize |-> 0,
     _readonly |-> FALSE, _protected |-> FALSE, controllable |-> FALSE,
     _resizable |-> FALSE, _encrypted |-> FALSE, req_grow |-> FALSE, isNetwork |-> FALSE,
     granule |-> 0, parents |-> <<>>, kids |-> 0,
     _format |-> getFormat(NoPath, FALSE), originalFormat |-> getFormat(NoPath, FALSE)]

Max(a, b) == IF a >= b THEN a ELSE b

\* __init__ that keeps the requested size.
__init___asRequested(w, d, a) ==
    LET fmt == a.fmt
        size == a.size
        self == [Blank EXCEPT
                    !.built = TRUE,
                    !.exists = a.exists,
                    !._size = size,
                    !._targetSize = size,
                    !._currentSize = IF a.exists THEN size ELSE 0,
                    !.controllable = ~a.testing,
                    !._resizable = a.type._resizable,
                    !._encrypted = a.type._encrypted,
                    !.req_grow = a.type.req_grow,
                    !.isNetwork = a.type.isNetwork,
                    !.granule = a.type.granule,
                    !.parents = a.parents]
        w1 == [w EXCEPT !.dev = addChildren([w.dev EXCEPT ![d] = self], a.parents, 1)]
        w2 == _setFormat(w1, d, fmt)
        w3 == Try(w2, LAMBDA x : [x EXCEPT !.dev[d].originalFormat = x.dev[d]._format])
    IN Try(w3, LAMBDA x : IF x.dev[d].exists /\ status(x, d) THEN updateSize(x, d) ELSE x)

\* StorageDevice.__init__(name=d, fmt=a.fmt, size=a.size, parents=a.parents,
\* exists=a.exists), with flags.testing = a.testing, for a device type whose
\* class attributes are a.type.
__init__(w, d, a) ==
    LET fmt == a.fmt
        size == IF ~a.exists /\ fmt # None /\ fmt.minSize # 0 /\ Max(a.size, fmt.minSize) > a.size
                THEN Max(a.size, fmt.minSize)
                ELSE a.size
        self == [Blank EXCEPT
                    !.built = TRUE,
                    !.exists = a.exists,
                    !._size = size,
                    !._targetSize = size,
                    !._currentSize = IF a.exists THEN size ELSE 0,
                    !.controllable = ~a.testing,
                    !._resizable = a.type._resizable,
                    !._encrypted = a.type._encrypted,
                    !.req_grow = a.type.req_grow,
                    !.isNetwork = a.type.isNetwork,
                    !.granule = a.type.granule,
                    !.parents = a.parents]
        w1 == [w EXCEPT !.dev = addChildren([w.dev EXCEPT ![d] = self], a.parents, 1)]
        w2 == _setFormat(w1, d, fmt)
        w3 == Try(w2, LAMBDA x : [x EXCEPT !.dev[d].originalFormat = x.dev[d]._format])
    IN Try(w3, LAMBDA x : IF x.dev[d].exists /\ status(x, d) THEN updateSize(x, d) ELSE x)

(***************************************************************************)
(* The state machine.  An operation is one action: it runs the whole call  *)
(* and leaves in `last` what its caller saw (with the environment the call *)
(* met, and the heap and the nodes as they were before it).  The caller    *)
(* takes that in (Continue) before it calls again.                         *)
(* Each action takes the sizes S it draws its arguments and observations   *)
(* from, and the primitives R that may raise.                              *)
(***************************************************************************)
Idle == [op |-> "idle"]

Commit(op, d, arg, w) ==
    /\ devices' = w.dev
    /\ node' = w.node
    /\ last' = [op |-> op, dev |-> d, arg |-> arg, err |-> w.err, trace |-> w.trace,
                inp |-> w.inp, ret |-> w.ret, pre |-> devices, prenode |-> node]
    /\ UNCHANGED flags

Ready(d) == last = Idle /\ devices[d].built

\* The device types: the class attributes of the base type and of subclasses
\* that override them.
BaseType ==
    [_resizable |-> FALSE, _encrypted |-> FALSE, req_grow |-> FALSE, isNetwork |-> FALSE,
     granule |-> 0]

\* The environment of an operation that calls no primitive.
Quiet(S) == [raises : {NoRaise}, effective : {FALSE}, obs : S]

\* The environment of an operation on d that may call the primitives `own` on
\* d and the primitives `cascade` on d and its ancestors.
Env(d, own, cascade, R, S) ==
    [raises : {NoRaise} \cup {<<p, d>> : p \in own \cap R}
                \cup {<<p, a>> : p \in cascade \cap R, a \in {d} \cup ancestors(devices, d)},
     effective : BOOLEAN, obs : S]

\* The lists of parents a new device may be given: built devices among ds, in
\* ascending order.
RECURSIVE SeqOf(_)
SeqOf(T) ==
    IF T = {} THEN <<>>
    ELSE LET m == CHOOSE x \in T : \A y \in T : x <= y IN <<m>> \o SeqOf(T \ {m})

ParentLists(ds) == {SeqOf(T) : T \in SUBSET {p \in ds : devices[p].built}}

Construct(d, Args, S) ==
    /\ last = Idle
    /\ ~devices[d].built
    /\ \E a \in Args, inp \in Quiet(S) :
          LET w == __init__(World(inp), d, a)
          IN Commit("__init__", d, <<a.size, a.exists, a.fmt>>,
                    IF Raised(w) THEN [w EXCEPT !.dev[d] = Blank] ELSE w)

Create(d, R, S) ==
    /\ Ready(d)
    /\ \E inp \in Env(d, {"_create"}, {"_setup"}, R, S) :
          Commit("create", d, <<>>, create(World(inp), d))

Setup(d, R, S) ==
    /\ Ready(d)
    /\ \E inp \in Env(d, {}, {"_setup"}, R, S), orig \in BOOLEAN :
          Commit("setup", d, <<orig>>, setup(World(inp), d, orig))

Teardown(d, R, S) ==
    /\ Ready(d)
    /\ \E inp \in Env(d, {}, {"_teardown"}, R, S), recursive \in BOOLEAN :
          Commit("teardown", d, <<recursive>>, teardown(World(inp), d, recursive))

Destroy(d, R, S) ==
    /\ Ready(d)
    /\ \E inp \in Env(d, {"_destroy"}, {"_teardown"}, R, S) :
          Commit("destroy", d, <<>>, destroy(World(inp), d))

Resize(d) ==
    /\ Ready(d)
    /\ \E inp \in Quiet({0}) : Commit("resize", d, <<>>, resize(World(inp), d))

SetTargetSize(d, S) ==
    /\ Ready(d)
    /\ \E inp \in Quiet(S), v \in S :
          Commit("targetSize", d, <<v>>, _setTargetSize(World(inp), d, v))

GetSize(d) ==
    /\ Ready(d)
    /\ \E inp \in Quiet({0}) :
          Commit("getSize", d, <<>>, Return(World(inp), _getSize(devices, d)))

SetSize(d, S) ==
    /\ Ready(d)
    /\ \E v \in S, inp \in Quiet({0}) :
          Commit("size", d, <<v>>, _setSize(World(inp), d, v))

SetFormat(d, Fmts) ==
    /\ Ready(d)
    /\ \E f \in Fmts, inp \in Quiet({0}) :
          Commit("format", d, <<f>>, _setFormat(World(inp), d, f))

UpdateSize(d, S) ==
    /\ Ready(d)
    /\ \E inp \in Quiet(S) : Commit("updateSize", d, <<>>, updateSize(World(inp), d))

GetCurrentSize(d, S) ==
    /\ Ready(d)
    /\ \E inp \in Quiet(S) :
          LET w == currentSize(World(inp), d)
          IN Commit("currentSize", d, <<>>, Return(w, w.dev[d]._currentSize))

\* updateSize() followed immediately by a read of currentSize, while the
\* size to observe may have become `again`.
UpdateSizeRead(d, S) ==
    /\ Ready(d)
    /\ \E inp \in Quiet(S), again \in S :
          LET w1 == updateSize(World(inp), d)
              w2 == currentSize([w1 EXCEPT !.inp.obs = again], d)
          IN Commit("updateSize;currentSize", d, <<w1.dev[d]._currentSize>>,
                    Return(w2, w2.dev[d]._currentSize))

\* The readonly setter.
SetReadonly(d) ==
    /\ Ready(d)
    /\ \E value \in BOOLEAN, inp \in Quiet({0}) :
          Commit("readonly", d, <<value>>, [World(inp) EXCEPT !.dev[d]._readonly = value])

\* The protected setter.
SetProtected(d) ==
    /\ Ready(d)
    /\ \E value \in BOOLEAN, inp \in Quiet({0}) :
          Commit("protected", d, <<value>>, [World(inp) EXCEPT !.dev[d]._protected = value])

\* A caller reads the encrypted, growable, readonly and protected properties.
GetFlags(d) ==
    /\ Ready(d)
    /\ \E inp \in Quiet({0}) :
          Commit("getFlags", d, <<>>,
                 Return(World(inp), [encrypted |-> encrypted(devices, d),
                                     growable |-> growable(devices, d),
                                     readonly |-> readonly(devices, d),
                                     protected |-> protected(devices, d)]))

\* The graph is edited: a device loses one of its parents.
RemoveParent(d) ==
    /\ Ready(d)
    /\ \E i \in 1..Len(devices[d].parents), inp \in Quiet({0}) :
          /\ devices[devices[d].parents[i]].kids > 0
          /\ Commit("removeParent", d, <<devices[d].parents[i]>>,
                    [World(inp) EXCEPT !.dev = removeParent(devices, d, i)])

\* Child counts stay within 0..NumDevs.
RemoveHook(d) ==
    /\ Ready(d)
    /\ \A p \in ParentSet(devices, d) : devices[p].kids > 0
    /\ \E inp \in Quiet({0}) : Commit("removeHook", d, <<>>, removeHook(World(inp), d))

AddHook(d) ==
    /\ Ready(d)
    /\ \A p \in ParentSet(devices, d) : devices[p].kids < NumDevs
    /\ \E new \in BOOLEAN, inp \in Quiet({0}) :
          Commit("addHook", d, <<new>>, addHook(World(inp), d, new))

Continue ==
    /\ last # Idle
    /\ last' = Idle
    /\ UNCHANGED <<devices, node, flags>>

\* Nothing is built; the nodes of the devices ds are there or not.
Start(ds) ==
    /\ devices = [d \in Devs |-> Blank]
    /\ node \in {n \in [Devs -> BOOLEAN] : \A d \in Devs \ ds : ~n[d]}
    /\ flags \in [testing : BOOLEAN]
    /\ last = Idle

(***************************************************************************)
(* Spec: a graph of the devices 1..NumLife of the base type under the      *)
(* lifecycle operations and the graph hooks, with primitives that may      *)
(* raise.  Sizes are zero or not.                                          *)
(***************************************************************************)
LifeDevs == 1..NumLife

LifeSizes == {0, MaxSize}

LifeFormats == {None} \cup {f \in NewFormats : f.type = "ext4" /\ f.exists /\ ~f.status}

LifeArgs(d) ==
    [size : LifeSizes, fmt : LifeFormats, exists : BOOLEAN, testing : {flags.testing},
     parents : ParentLists(1..(d - 1)), type : {BaseType}]

Init == Start(LifeDevs)

Next ==
    \/ \E d \in LifeDevs : Construct(d, LifeArgs(d), LifeSizes)
    \/ \E d \in LifeDevs : Create(d, Primitives, LifeSizes)
    \/ \E d \in LifeDevs : Setup(d, Primitives, LifeSizes)
    \/ \E d \in LifeDevs : Teardown(d, Primitives, LifeSizes)
    \/ \E d \in LifeDevs : Destroy(d, Primitives, LifeSizes)
    \/ \E d \in LifeDevs : RemoveHook(d)
    \/ \E d \in LifeDevs : AddHook(d)
    \/ Continue

Spec == Init /\ [][Next]_vars

(***************************************************************************)
(* SpecDev: one device without parents, of the base type, of a resizable    *)
(* type or of a resizable type that aligns its sizes, under every          *)
(* operation, with every size and every format.                            *)
(***************************************************************************)
DevArgs ==
    [size : Sizes, fmt : LifeFormats \cup {f \in NewFormats : f.type = "ext4" /\ ~f.exists},
     exists : BOOLEAN,
     testing : {flags.testing}, parents : {<<>>},
     type : {BaseType, [BaseType EXCEPT !._resizable = TRUE],
             [BaseType EXCEPT !._resizable = TRUE, !.granule = Granule]}]

InitDev == Start({1})

NextDev ==
    \/ Construct(1, DevArgs, Sizes)
    \/ Create(1, Primitives, Sizes)
    \/ Setup(1, Primitives, Sizes)
    \/ Teardown(1, Primitives, Sizes)
    \/ Destroy(1, Primitives, Sizes)
    \/ Resize(1)
    \/ SetTargetSize(1, Sizes)
    \/ GetSize(1)
    \/ SetSize(1, Sizes)
    \/ SetFormat(1, FormatArgs)
    \/ UpdateSize(1, Sizes)
    \/ UpdateSizeRead(1, Sizes)
    \/ GetCurrentSize(1, Sizes)
    \/ RemoveHook(1)
    \/ AddHook(1)
    \/ Continue

SpecDev == InitDev /\ [][NextDev]_vars

(***************************************************************************)
(* SpecFlags: a graph of the devices 1..NumDevs, none of which exists, of  *)
(* types that are encrypted or not and growable or not, whose readonly and *)
(* protected flags are set and cleared and whose derived properties are    *)
(* read.                                                                   *)
(***************************************************************************)
FlagTypes ==
    {[BaseType EXCEPT !._encrypted = e, !.req_grow = g] : e \in BOOLEAN, g \in BOOLEAN}

FlagArgs(d) ==
    [size : {0}, fmt : {None}, exists : {FALSE}, testing : {flags.testing},
     parents : ParentLists(1..(d - 1)), type : FlagTypes]

InitFlags == Start({})

NextFlags ==
    \/ \E d \in Devs : Construct(d, FlagArgs(d), {0})
    \/ \E d \in Devs : SetReadonly(d)
    \/ \E d \in Devs : SetProtected(d)
    \/ \E d \in Devs : GetFlags(d)
    \/ Continue

SpecFlags == InitFlags /\ [][NextFlags]_vars

(***************************************************************************)
(* SpecNet: a graph of the devices 1..NumDevs, network storage devices or  *)
(* not.  The last one is constructed without existing, on parents that     *)
(* exist, with a mountable format whose options name _netdev or not; it is *)
(* given formats and created, and devices are taken from their parents.    *)
(***************************************************************************)
NetOptions == {<<"defaults">>, <<"defaults", "_netdev">>, <<"_netdev", "_netdev">>}

NetFormats ==
    {[f EXCEPT !.options = o] :
        f \in {g \in NewFormats : g.type = "ext4" /\ ~g.exists}, o \in NetOptions}
    \cup {g \in NewFormats : g.type = "swap" /\ ~g.exists}

NetArgs(d) ==
    [size : {1},
     fmt : IF d = NumDevs THEN {None} \cup NetFormats ELSE {None},
     exists : {d # NumDevs}, testing : {flags.testing},
     parents : ParentLists(1..(d - 1)),
     type : {BaseType, [BaseType EXCEPT !.isNetwork = TRUE]}]

InitNet == Start({})

NextNet ==
    \/ \E d \in Devs : Construct(d, NetArgs(d), {1})
    \/ SetFormat(NumDevs, NetFormats \cup {None})
    \/ Create(NumDevs, {}, {1})
    \/ \E d \in Devs : RemoveParent(d)
    \/ Continue

SpecNet == InitNet /\ [][NextNet]_vars

(***************************************************************************)
(* SpecGuard: a graph of the devices 1..NumLife of the base type, whose    *)
(* readonly and protected flags are set and cleared, under the lifecycle   *)
(* operations with primitives that do not raise.                           *)
(***************************************************************************)
GuardArgs(d) ==
    [size : {MaxSize}, fmt : LifeFormats, exists : BOOLEAN, testing : {flags.testing},
     parents : ParentLists(1..(d - 1)), type : {BaseType}]

InitGuard == Start(LifeDevs)

NextGuard ==
    \/ \E d \in LifeDevs : Construct(d, GuardArgs(d), {MaxSize})
    \/ \E d \in LifeDevs : Create(d, {}, {MaxSize})
    \/ \E d \in LifeDevs : Setup(d, {}, {MaxSize})
    \/ \E d \in LifeDevs : Teardown(d, {}, {MaxSize})
    \/ \E d \in LifeDevs : Destroy(d, {}, {MaxSize})
    \/ \E d \in LifeDevs : SetReadonly(d)
    \/ \E d \in LifeDevs : SetProtected(d)
    \/ Continue

SpecGuard == InitGuard /\ [][NextGuard]_vars

(***************************************************************************)
(* SpecErr: the devices 1..NumLife, the last of them of the base type or   *)
(* of the resizable type that aligns its sizes and under every operation   *)
(* that checks a precondition, the others of the base type, constructed    *)
(* and destroyed; the primitives do not raise.                             *)
(***************************************************************************)
ErrSizes == {1, MaxSize}

ErrFormats == {f \in NewFormats : f.type = "ext4" /\ f.exists = f.status}

ErrArgs(d) ==
    [size : IF d = NumLife THEN ErrSizes ELSE {MaxSize},
     fmt : {None}, exists : BOOLEAN, testing : {flags.testing},
     parents : ParentLists(1..(d - 1)),
     type : IF d = NumLife
            THEN {BaseType, [BaseType EXCEPT !._resizable = TRUE, !.granule = Granule]}
            ELSE {BaseType}]

InitErr == Start({})

NextErr ==
    \/ \E d \in LifeDevs : Construct(d, ErrArgs(d), {MaxSize})
    \/ \E d \in LifeDevs : Destroy(d, {}, {MaxSize})
    \/ Create(NumLife, {}, {MaxSize})
    \/ Setup(NumLife, {}, {MaxSize})
    \/ Teardown(NumLife, {}, {MaxSize})
    \/ Resize(NumLife)
    \/ SetTargetSize(NumLife, ErrSizes)
    \/ SetSize(NumLife, ErrSizes)
    \/ SetFormat(NumLife, ErrFormats)
    \/ Continue

SpecErr == InitErr /\ [][NextErr]_vars

(***************************************************************************)
(* What the claims speak of.                                               *)
(***************************************************************************)
\* The last operation was `op`.
Did(op) == last.op = op

\* The last operation made the call `ev` on device d.
Called(ev, d) == \E i \in 1..Len(last.trace) : last.trace[i] = <<ev, d>>

\* The last operation made the call `ev` on some device.
CalledAny(ev) == \E i \in 1..Len(last.trace) : last.trace[i][1] = ev

\* The world the last operation started from.
PreWorld ==
    [dev |-> last.pre, node |-> last.prenode, err |-> NoErr, trace |-> <<>>,
     inp |-> last.inp, ret |-> TRUE]

(***************************************************************************)
(* C1.  create() on a device whose exists flag is true raises the          *)
(* AlreadyExists device error, naming the device, before the parents are   *)
(* set up and before the creation primitive runs: the call does nothing    *)
(* else, and exists stays true.                                            *)
(***************************************************************************)
C1_CreateOnExisting ==
    (Did("create") /\ last.pre[last.dev].exists) =>
        /\ last.err = DeviceError("AlreadyExists", last.dev)
        /\ last.trace = <<<<"create", last.dev>>>>
        /\ ~CalledAny("setupParents") /\ ~CalledAny("setup") /\ ~CalledAny("_create")
        /\ devices[last.dev].exists
        /\ devices = last.pre /\ node = last.prenode

\* create() was refused on an existing device that has an inactive parent.
C1_Witness ==
    /\ Did("create") /\ last.pre[last.dev].exists
    /\ last.pre[last.dev].parents # <<>>
    /\ \E p \in ParentSet(last.pre, last.dev) : last.pre[p].exists /\ ~last.prenode[p]
    /\ last.err.kind = "AlreadyExists"

(***************************************************************************)
(* C2, as claimed.  destroy() on a device that has at least one child      *)
(* raises NotALeaf, whatever the device's other state (existing or not,    *)
(* active or not), and leaves exists unchanged; neither teardown nor the   *)
(* destruction primitive runs.                                             *)
(***************************************************************************)
C2_Original ==
    (Did("destroy") /\ last.pre[last.dev].kids > 0) =>
        /\ last.err = DeviceError("NotALeaf", last.dev)
        /\ devices[last.dev].exists = last.pre[last.dev].exists
        /\ ~CalledAny("teardown") /\ ~CalledAny("_destroy")

(***************************************************************************)
(* C2, amended.  destroy() on a device that has at least one child raises  *)
(* NotALeaf if the device exists (active or not) and NotCreated if it does *)
(* not (exists is checked first); either way exists is unchanged, and      *)
(* neither teardown nor the destruction primitive runs.                    *)
(***************************************************************************)
C2_DestroyNonLeaf ==
    (Did("destroy") /\ last.pre[last.dev].kids > 0) =>
        /\ last.err = DeviceError(IF last.pre[last.dev].exists THEN "NotALeaf" ELSE "NotCreated",
                                  last.dev)
        /\ devices[last.dev].exists = last.pre[last.dev].exists
        /\ ~CalledAny("teardown") /\ ~CalledAny("_teardown") /\ ~CalledAny("_destroy")
        /\ ~CalledAny("_postDestroy")
        /\ devices = last.pre /\ node = last.prenode

\* destroy() was refused on an existing, active device with a child.
C2_Witness ==
    /\ Did("destroy") /\ last.pre[last.dev].kids > 0
    /\ last.pre[last.dev].exists /\ last.prenode[last.dev]
    /\ last.err.kind = "NotALeaf"

(***************************************************************************)
(* C4.  For an existing device D: while D's child count is not zero,       *)
(* destroy() of D is refused with NotALeaf and D stays existing;           *)
(* removeHook on a child C decrements the child count of each parent of C  *)
(* and changes no exists flag; and destroy() of an existing D whose child  *)
(* count is zero goes through (its primitives not raising) and ends with   *)
(* D.exists = FALSE.                                                       *)
(***************************************************************************)
C4_DestroyAfterRemove ==
    /\ (Did("destroy") /\ last.pre[last.dev].exists /\ last.pre[last.dev].kids > 0) =>
           /\ last.err = DeviceError("NotALeaf", last.dev)
           /\ devices[last.dev].exists
    /\ Did("removeHook") =>
           /\ \A p \in Devs :
                 devices[p].kids = last.pre[p].kids -
                     Cardinality({i \in 1..Len(last.pre[last.dev].parents) :
                                     last.pre[last.dev].parents[i] = p})
           /\ \A x \in Devs : devices[x].exists = last.pre[x].exists
           /\ last.err = NoErr
    /\ (Did("destroy") /\ last.pre[last.dev].exists /\ last.pre[last.dev].kids = 0
            /\ last.inp.raises = NoRaise) =>
           /\ last.err = NoErr
           /\ ~devices[last.dev].exists

\* D, which has a child C that is one of its parents' children no more, was
\* destroyed.
C4_Witness ==
    /\ Did("destroy") /\ last.err = NoErr /\ ~devices[last.dev].exists
    /\ \E c \in Devs : devices[c].built /\ last.dev \in ParentSet(devices, c)

\* The position of the first call `ev` on d in the last operation's trace
\* (0 when it was not made).
FirstCall(ev, d) ==
    IF Called(ev, d)
    THEN CHOOSE i \in 1..Len(last.trace) :
            /\ last.trace[i] = <<ev, d>>
            /\ \A j \in 1..(i - 1) : last.trace[j] # <<ev, d>>
    ELSE 0

\* The last call was an operation on a constructed device.
DidOperation == ~Did("idle") /\ ~Did("__init__")

\* exists of d went from false to true in the post-create hook of a create()
\* of d whose precondition and primitive succeeded.
FlippedByCreate(d) ==
    /\ Did("create") /\ last.dev = d
    /\ Called("_create", d) /\ Called("_postCreate", d)
    /\ FirstCall("_create", d) < FirstCall("_postCreate", d)
    /\ last.inp.raises # <<"_create", d>>

\* exists of d went from true to false in the post-destroy hook of a
\* destroy() of d whose precondition and primitive succeeded.
FlippedByDestroy(d) ==
    /\ Did("destroy") /\ last.dev = d
    /\ Called("_destroy", d) /\ Called("_postDestroy", d)
    /\ last.trace[Len(last.trace)] = <<"_postDestroy", d>>
    /\ last.inp.raises # <<"_destroy", d>>

(***************************************************************************)
(* C3, as claimed.  Over every sequence of operations, exists changes from *)
(* false to true only in the post-create hook of a create() whose          *)
(* precondition and primitive succeeded, and from true to false only in    *)
(* the post-destroy hook of a destroy() whose precondition and primitive   *)
(* succeeded; no other operation, and no failed operation, changes exists. *)
(***************************************************************************)
C3_Original ==
    DidOperation =>
        \A d \in Devs :
            devices[d].exists # last.pre[d].exists =>
                /\ last.err = NoErr
                /\ IF devices[d].exists THEN FlippedByCreate(d) ELSE FlippedByDestroy(d)

(***************************************************************************)
(* C3, amended.  exists changes from false to true only in the post-create *)
(* hook of a create() whose precondition and primitive succeeded, and from *)
(* true to false only in the post-destroy hook of a destroy() whose        *)
(* precondition and primitive succeeded; no other operation changes        *)
(* exists, and the only failed operation that does is a create() that      *)
(* raises inside its post-create hook (its own setup() failing), after the *)
(* hook has set exists: a failed destroy() never changes it.               *)
(***************************************************************************)
C3_ExistsFlips ==
    DidOperation =>
        \A d \in Devs :
            devices[d].exists # last.pre[d].exists =>
                /\ IF devices[d].exists THEN FlippedByCreate(d) ELSE FlippedByDestroy(d)
                /\ last.err # NoErr =>
                      /\ Did("create") /\ devices[d].exists
                      /\ last.err = PrimitiveError("_setup", d)
                      /\ FirstCall("_postCreate", d) < FirstCall("_setup", d)

\* A create() set exists and returned normally.
C3_Witness ==
    /\ Did("create") /\ last.err = NoErr
    /\ ~last.pre[last.dev].exists /\ devices[last.dev].exists
    /\ Called("_setup", last.dev)

\* What the target size setter of the device compares a value with, worked
\* out from the device as it was before the call: its type rounds the value
\* and the bounds of its format down to its granule; a device that is not
\* resizable has its current size, probed if none is cached, as both bounds.
C5_Dev == last.pre[last.dev]

C5_Resizable ==
    /\ C5_Dev._resizable /\ C5_Dev.exists
    /\ C5_Dev._format.type = "none" \/ C5_Dev._format.resizable \/ ~C5_Dev._format.exists

C5_Round(v) == IF C5_Dev.granule = 0 THEN v ELSE C5_Dev.granule * (v \div C5_Dev.granule)

C5_Current ==
    IF C5_Dev._currentSize # 0 THEN C5_Dev._currentSize
    ELSE IF C5_Dev.exists THEN last.inp.obs ELSE 0

C5_Max == IF C5_Resizable THEN C5_Round(C5_Dev._format.maxSize) ELSE C5_Current

C5_Min == IF C5_Resizable THEN C5_Round(C5_Dev._format.minSize) ELSE C5_Current

(***************************************************************************)
(* C5, as claimed.  The targetSize setter rejects any value greater than   *)
(* maxSize, any value less than minSize, and any value whose aligned form  *)
(* differs from itself; an accepted value becomes the new targetSize with  *)
(* no other field mutated.                                                 *)
(***************************************************************************)
C5_Original ==
    Did("targetSize") =>
        LET v == last.arg[1]
        IN IF v > C5_Max \/ v < C5_Min \/ C5_Round(v) # v
           THEN last.err # NoErr /\ devices[last.dev]._targetSize = C5_Dev._targetSize
           ELSE last.err = NoErr /\ devices = [last.pre EXCEPT ![last.dev]._targetSize = v]

(***************************************************************************)
(* C5, amended.  The targetSize setter rejects a value greater than a      *)
(* non-zero maxSize, a value less than a non-zero minSize, and a value     *)
(* whose aligned form differs from itself, and leaves targetSize as it     *)
(* was; a bound of zero is no bound.  It accepts every other value, which  *)
(* becomes the new targetSize.  Accepted or not, the call changes no other *)
(* field of the device but the cached current size, which a device that is *)
(* not resizable probes while reading its bounds if none is cached.        *)
(***************************************************************************)
C5_TargetSize ==
    Did("targetSize") =>
        LET v == last.arg[1]
            bounds == \/ C5_Max # 0 /\ v > C5_Max
                      \/ C5_Min # 0 /\ v < C5_Min
            newTarget == IF last.err = NoErr THEN v ELSE C5_Dev._targetSize
            newCurrent == IF C5_Resizable THEN C5_Dev._currentSize ELSE C5_Current
        IN /\ last.err = IF bounds THEN ValueError("SizeOutOfBounds")
                         ELSE IF C5_Round(v) # v THEN ValueError("AlignmentViolation")
                         ELSE NoErr
           /\ devices = [last.pre EXCEPT ![last.dev]._targetSize = newTarget,
                                         ![last.dev]._currentSize = newCurrent]
           /\ node = last.prenode

\* The setter rejected a value within non-zero bounds for its alignment.
C5_Witness ==
    /\ Did("targetSize")
    /\ last.err = ValueError("AlignmentViolation")
    /\ C5_Max # 0 /\ last.arg[1] <= C5_Max

\* The effective size of a device record, from its fields.
EffectiveSize(rec) ==
    IF /\ rec.exists /\ rec._resizable
       /\ rec._format.type = "none" \/ rec._format.resizable \/ ~rec._format.exists
       /\ rec._targetSize # 0
    THEN rec._targetSize
    ELSE rec._size

(***************************************************************************)
(* C6.  In every reachable state the size getter returns targetSize when   *)
(* the device exists, is resizable and has a non-zero targetSize, and the  *)
(* internally tracked size field (_size) in every other state, so for a    *)
(* device that does not exist; reading the size changes nothing.           *)
(***************************************************************************)
C6_SizeGetter ==
    Did("getSize") =>
        LET rec == last.pre[last.dev]
        IN /\ last.ret = EffectiveSize(rec)
           /\ ~rec.exists => last.ret = rec._size
           /\ rec.exists /\ rec._targetSize = 0 => last.ret = rec._size
           /\ devices = last.pre /\ node = last.prenode /\ last.err = NoErr

\* The getter returned the target size of an existing resizable device whose
\* tracked size is another.
C6_Witness ==
    /\ Did("getSize")
    /\ devices[last.dev].exists /\ devices[last.dev]._resizable
    /\ devices[last.dev]._targetSize # 0
    /\ devices[last.dev]._targetSize # devices[last.dev]._size
    /\ last.ret = devices[last.dev]._targetSize

(***************************************************************************)
(* C7.  Constructing a non-existent device with a format whose minimum     *)
(* size exceeds the requested size succeeds, and the device's size is the  *)
(* format's minimum size, not the requested size; so a freshly constructed *)
(* non-existent device with a format never has a size below the format's   *)
(* minimum.                                                                *)
(***************************************************************************)
C7_InitialSize ==
    Did("__init__") /\ ~last.arg[2] /\ last.arg[3] # None =>
        LET requested == last.arg[1]
            fmt == last.arg[3]
            rec == devices[last.dev]
        IN /\ fmt.minSize > requested =>
                /\ last.err = NoErr /\ rec.built /\ ~rec.exists
                /\ rec._size = fmt.minSize /\ EffectiveSize(rec) = fmt.minSize
                /\ rec._size # requested
           /\ last.err = NoErr => EffectiveSize(rec) >= fmt.minSize

\* A device was constructed with less than its format's minimum requested.
C7_Witness ==
    /\ Did("__init__") /\ ~last.arg[2] /\ last.arg[3] # None
    /\ last.arg[3].minSize > last.arg[1]
    /\ devices[last.dev].built /\ devices[last.dev]._format.type = last.arg[3].type

\* The format that an assignment of `arg` binds to a device.
NewFormat(rec, d, arg) == IF arg = None THEN getFormat(path(d), rec.exists) ELSE arg

\* The size of the device is beyond a bound of the format.
OutOfBounds(rec, fmt) ==
    \/ fmt.maxSize # 0 /\ fmt.maxSize < EffectiveSize(rec)
    \/ fmt.minSize # 0 /\ fmt.minSize > EffectiveSize(rec)

(***************************************************************************)
(* C8.  Assigning a new format while the device's current format reports   *)
(* active raises ActiveFormat, naming the device, and leaves the bound     *)
(* format with its device path and options (and the device) unchanged;     *)
(* assigning while the current format is inactive and the size bounds are  *)
(* satisfied succeeds, and afterwards the bound format is the new one and  *)
(* its device path is the path of the device.                              *)
(***************************************************************************)
C8_FormatReplacement ==
    Did("format") =>
        LET d == last.dev
            rec == last.pre[d]
            fmt == NewFormat(rec, d, last.arg[1])
        IN /\ rec._format.status =>
                /\ last.err = DeviceError("ActiveFormat", d)
                /\ devices = last.pre
           /\ ~rec._format.status /\ ~OutOfBounds(rec, fmt) =>
                /\ last.err = NoErr
                /\ devices[d]._format.device = path(d)
                /\ devices[d]._format.type = fmt.type
                /\ devices[d]._format.exists = fmt.exists

\* An assignment to a device with an active format was refused.
C8_Witness ==
    /\ Did("format")
    /\ last.pre[last.dev]._format.status
    /\ last.arg[1] # None /\ last.arg[1].type # last.pre[last.dev]._format.type
    /\ devices[last.dev]._format = last.pre[last.dev]._format

(***************************************************************************)
(* C9, as claimed.  Assigning (to a device whose format is inactive) a     *)
(* format whose size bounds are violated by the device's current size is   *)
(* rejected with a size-out-of-bounds error and the previous format stays  *)
(* bound, for every new format whether or not that format already exists   *)
(* on disk.                                                                *)
(***************************************************************************)
C9_Original ==
    Did("format") /\ ~last.pre[last.dev]._format.status =>
        LET rec == last.pre[last.dev]
            fmt == NewFormat(rec, last.dev, last.arg[1])
        IN OutOfBounds(rec, fmt) =>
              /\ last.err # NoErr /\ last.err.kind = "SizeOutOfBounds"
              /\ devices[last.dev]._format = rec._format

(***************************************************************************)
(* C9, amended.  Assigning (to a device whose format is inactive) a format *)
(* that does not exist on disk yet and whose size bounds are violated by   *)
(* the device's current size (format max size below the device size, or    *)
(* format min size above it) is rejected with a size-out-of-bounds error   *)
(* and the previous format stays bound; a format that already exists on    *)
(* disk is bound whatever its bounds.                                      *)
(***************************************************************************)
C9_FormatBounds ==
    Did("format") /\ ~last.pre[last.dev]._format.status =>
        LET d == last.dev
            rec == last.pre[d]
            fmt == NewFormat(rec, d, last.arg[1])
        IN /\ OutOfBounds(rec, fmt) /\ ~fmt.exists =>
                /\ last.err = DeviceError("SizeOutOfBounds", NoDev)
                /\ devices = last.pre
           /\ fmt.exists =>
                /\ last.err = NoErr
                /\ devices[d]._format.type = fmt.type
                /\ devices[d]._format.device = path(d)

\* A format that is not on disk was refused for the size of the device, which
\* kept another format.
C9_Witness ==
    /\ Did("format") /\ ~last.pre[last.dev]._format.status
    /\ last.arg[1] # None /\ ~last.arg[1].exists
    /\ OutOfBounds(last.pre[last.dev], last.arg[1])
    /\ last.pre[last.dev]._format.type = "swap"
    /\ devices[last.dev]._format.type = "swap"

\* The local flags of a device, by the name of the property derived from them.
LocalFlag(rec, prop) ==
    CASE prop = "encrypted" -> rec._encrypted
      [] prop = "growable" -> rec.req_grow
      [] prop = "readonly" -> rec._readonly

(***************************************************************************)
(* C10.  In any acyclic parent chain (of three levels at least), each of   *)
(* encrypted, growable and readonly is true on a device whenever its own   *)
(* local flag is false but some immediate or transitive parent has the     *)
(* corresponding flag true, and false when neither the device nor any      *)
(* ancestor has it.                                                        *)
(***************************************************************************)
C10_Propagation ==
    Did("getFlags") =>
        \A prop \in {"encrypted", "growable", "readonly"} :
            LET own == LocalFlag(devices[last.dev], prop)
                inherited == \E a \in ancestors(devices, last.dev) : LocalFlag(devices[a], prop)
            IN /\ ~own /\ inherited => last.ret[prop]
               /\ ~own /\ ~inherited => ~last.ret[prop]

\* A chain of three levels in which only the top device has the flags, read
\* at the bottom.
C10_Witness ==
    /\ Did("getFlags") /\ last.dev = 3
    /\ devices[3].parents = <<2>> /\ devices[2].parents = <<1>> /\ devices[1].parents = <<>>
    /\ \A prop \in {"encrypted", "growable", "readonly"} :
          /\ LocalFlag(devices[1], prop)
          /\ ~LocalFlag(devices[2], prop) /\ ~LocalFlag(devices[3], prop)
          /\ last.ret[prop]

\* Some immediate or transitive parent of the device read has its protected
\* flag set, and the device's own is not.
C11_ParentProtected ==
    /\ ~devices[last.dev]._protected
    /\ \E a \in ancestors(devices, last.dev) : devices[a]._protected

\* The device read or one of its ancestors has its readonly flag set.
C11_ReadOnly ==
    \E a \in {last.dev} \cup ancestors(devices, last.dev) : devices[a]._readonly

(***************************************************************************)
(* C11, as claimed.  The effective protected status of a device is true    *)
(* whenever its own protected flag is false but an immediate or transitive *)
(* parent has its protected flag set to true (including a parent that is   *)
(* protected without being read-only).                                     *)
(***************************************************************************)
C11_Original ==
    Did("getFlags") /\ C11_ParentProtected => last.ret.protected

(***************************************************************************)
(* C11, amended.  The effective protected status of a device is true       *)
(* exactly when its own protected flag is set or the device is read-only   *)
(* (its own readonly flag or that of an immediate or transitive parent is  *)
(* set); the protected flag of a parent does not propagate: a device whose *)
(* parent is protected without being read-only is not protected by it.     *)
(***************************************************************************)
C11_Protected ==
    Did("getFlags") =>
        /\ last.ret.protected = (devices[last.dev]._protected \/ C11_ReadOnly)
        /\ C11_ParentProtected /\ ~C11_ReadOnly => ~last.ret.protected

\* The bottom of a chain of three levels whose top alone is protected, and
\* nothing read-only, read as not protected.
C11_Witness ==
    /\ Did("getFlags") /\ last.dev = 3
    /\ devices[3].parents = <<2>> /\ devices[2].parents = <<1>>
    /\ devices[1]._protected /\ C11_ParentProtected /\ ~C11_ReadOnly
    /\ ~last.ret.protected

\* How many times the option list names _netdev.
RECURSIVE NetdevCount(_)
NetdevCount(l) ==
    IF l = <<>> THEN 0
    ELSE (IF Head(l) = "_netdev" THEN 1 ELSE 0) + NetdevCount(Tail(l))

\* The device has a network storage device among its true ancestors.
NetworkBacked(dev, d) == \E a \in ancestors(dev, d) : dev[a].isNetwork

\* The last operation bound a mountable format to its device, or created the
\* device with one: the two calls that reconcile the option.
C12_Reconciled ==
    /\ Did("format") \/ Did("create")
    /\ last.err = NoErr
    /\ devices[last.dev]._format.mountable

\* The options the reconciliation of the last operation started from.
C12_Given ==
    IF Did("format") THEN last.arg[1].options ELSE last.pre[last.dev]._format.options

\* The last operation took the device's last network storage ancestor away.
C12_Unbacked ==
    /\ Did("removeParent")
    /\ NetworkBacked(last.pre, last.dev) /\ ~NetworkBacked(devices, last.dev)
    /\ devices[last.dev]._format.mountable

C13_Reprobes ==
    LET n == FirstCall("updateSize", last.dev)
    IN Cardinality({i \in (n + 1)..Len(last.trace) :
                        last.trace[i] = <<"readCurrentSize", last.dev>>})

(***************************************************************************)
(* C13, as claimed.  For every observed size (including an observation of  *)
(* zero), updateSize() followed immediately by a read of currentSize       *)
(* returns the value updateSize observed, and that read does not invoke    *)
(* the size probe (readCurrentSize) again.                                 *)
(***************************************************************************)
C13_Original ==
    Did("updateSize;currentSize") =>
        /\ last.ret = last.arg[1]
        /\ C13_Reprobes = 0

(***************************************************************************)
(* C13, amended.  For every observed size other than zero, updateSize()    *)
(* followed immediately by a read of currentSize returns the value         *)
(* updateSize observed, and that read does not invoke the size probe       *)
(* (readCurrentSize) again.  After an observation of zero the read probes  *)
(* again, once, and returns what that probe observes.                      *)
(***************************************************************************)
C13_RoundTrip ==
    Did("updateSize;currentSize") =>
        LET observed == last.arg[1]
        IN /\ devices[last.dev]._size = observed
           /\ devices[last.dev]._targetSize = observed
           /\ observed # 0 =>
                /\ last.ret = observed /\ devices[last.dev]._currentSize = observed
                /\ C13_Reprobes = 0
           /\ observed = 0 =>
                /\ C13_Reprobes = 1
                /\ last.ret = IF devices[last.dev].exists THEN last.inp.obs ELSE 0
                /\ devices[last.dev]._currentSize = last.ret

\* The read returned the size that updateSize observed although the size to
\* observe had changed since.
C13_Witness ==
    /\ Did("updateSize;currentSize")
    /\ last.arg[1] # 0 /\ last.inp.obs # last.arg[1]
    /\ last.ret = last.arg[1]
    /\ last.pre[last.dev]._currentSize # last.arg[1]

(***************************************************************************)
(* C14.  In every reachable state in which the device does not exist,      *)
(* currentSize reads as 0; this holds for a never-created device and also  *)
(* after any sequence that ends with a successful destroy() (e.g. create,  *)
(* size observation, destroy).                                             *)
(***************************************************************************)
C14_Original ==
    Did("currentSize") /\ ~last.pre[last.dev].exists => last.ret = 0

\* The last operation made its own call and nothing else, and changed
\* neither a device nor a node.
NoOp(op) ==
    /\ last.trace = <<<<op, last.dev>>>>
    /\ devices = last.pre /\ node = last.prenode

(***************************************************************************)
(* C15.  setup() on a device that does not exist raises the NotCreated     *)
(* device error and changes no state; setup() on an existing device that   *)
(* is already active, or whose controllable flag is false, returns without *)
(* setting up any parent, without running the activation primitive         *)
(* (_setup) and without the post-setup bookkeeping, so a second setup() on *)
(* an active device is a no-op.                                            *)
(***************************************************************************)
C15_SetupGuards ==
    Did("setup") =>
        LET rec == last.pre[last.dev]
        IN /\ ~rec.exists =>
                last.err = DeviceError("NotCreated", last.dev) /\ NoOp("setup")
           /\ rec.exists /\ (last.prenode[last.dev] \/ ~rec.controllable) =>
                /\ last.err = NoErr /\ NoOp("setup")
                /\ ~CalledAny("setupParents") /\ ~CalledAny("_setup")
                /\ ~CalledAny("_postSetup")

\* setup() returned at once on an active device whose parent is not active.
C15_Witness ==
    /\ Did("setup") /\ last.err = NoErr
    /\ last.pre[last.dev].exists /\ last.prenode[last.dev]
    /\ last.pre[last.dev].controllable
    /\ \E p \in ParentSet(last.pre, last.dev) : last.pre[p].exists /\ ~last.prenode[p]
    /\ NoOp("setup")

\* The device was protected before the last operation: by its own flag, or
\* read-only by its own flag or that of an ancestor.
WasProtected(d) ==
    \/ last.pre[d]._protected
    \/ \E a \in {d} \cup ancestors(last.pre, d) : last.pre[a]._readonly

\* The device was active before the last operation.
WasActive(d) == last.pre[d].exists /\ last.prenode[d]

\* The last operation was a teardown() that does not raise and finds its
\* device inactive, non-controllable or protected.
C16_Spared ==
    /\ Did("teardown")
    /\ last.pre[last.dev].exists \/ last.arg[1]
    /\ ~WasActive(last.dev) \/ ~last.pre[last.dev].controllable \/ WasProtected(last.dev)

(***************************************************************************)
(* C16, as claimed.  teardown() raises NotCreated when the device does not *)
(* exist and the call is not recursive; otherwise, on a device that is     *)
(* inactive, non-controllable or protected, teardown() is a no-op: it      *)
(* tears down no format, runs no deactivation primitive, and changes the   *)
(* state of neither this device nor any other device, for both recursive   *)
(* and non-recursive calls.                                                *)
(***************************************************************************)
C16_Original ==
    /\ Did("teardown") /\ ~last.pre[last.dev].exists /\ ~last.arg[1] =>
          last.err = DeviceError("NotCreated", last.dev) /\ NoOp("teardown")
    /\ C16_Spared =>
          /\ last.err = NoErr
          /\ ~CalledAny("format.teardown") /\ ~CalledAny("originalFormat.teardown")
          /\ ~CalledAny("_teardown")
          /\ devices = last.pre /\ node = last.prenode

(***************************************************************************)
(* C16, amended.  teardown() raises NotCreated when the device does not    *)
(* exist and the call is not recursive; otherwise, on a device that is     *)
(* inactive, non-controllable or protected, teardown() tears down no       *)
(* format of the device, does not run its deactivation primitive and does  *)
(* not change its state.  A non-recursive call is then a no-op; a          *)
(* recursive call goes on to tear down the parents of the device, which    *)
(* deactivates every parent that is active, controllable and not           *)
(* protected.                                                              *)
(***************************************************************************)
C16_TeardownGuards ==
    /\ Did("teardown") /\ ~last.pre[last.dev].exists /\ ~last.arg[1] =>
          last.err = DeviceError("NotCreated", last.dev) /\ NoOp("teardown")
    /\ C16_Spared =>
          LET d == last.dev
          IN /\ last.err = NoErr
             /\ ~Called("format.teardown", d) /\ ~Called("originalFormat.teardown", d)
             /\ ~Called("_teardown", d)
             /\ devices[d] = last.pre[d] /\ node[d] = last.prenode[d]
             /\ ~last.arg[1] => NoOp("teardown")
             /\ last.arg[1] =>
                   /\ Called("teardownParents", d)
                   /\ \A p \in ParentSet(last.pre, d) :
                         /\ Called("teardown", p)
                         /\ WasActive(p) /\ last.pre[p].controllable /\ ~WasProtected(p)
                               => Called("_teardown", p)

\* A recursive teardown() of a protected device deactivated its parent.
C16_Witness ==
    /\ C16_Spared /\ last.arg[1]
    /\ WasActive(last.dev) /\ last.pre[last.dev]._protected
    /\ node[last.dev]
    /\ \E p \in ParentSet(last.pre, last.dev) : last.prenode[p] /\ ~node[p]

\* The last operation was `op` on a device whose controllable flag is false.
C17_Uncontrolled(op) == Did(op) /\ ~last.pre[last.dev].controllable

\* exists, the activation status and the sizes of the device are as they were
\* before the last operation.
C17_Unchanged(d) ==
    /\ devices[d].exists = last.pre[d].exists
    /\ node[d] = last.prenode[d]
    /\ devices[d]._size = last.pre[d]._size
    /\ devices[d]._targetSize = last.pre[d]._targetSize
    /\ devices[d]._currentSize = last.pre[d]._currentSize

(***************************************************************************)
(* C17, as claimed.  While a device's controllable flag is false, no       *)
(* state-changing operation on it (create, setup, teardown, destroy)       *)
(* changes its state: exists, activation status and sizes are the same     *)
(* after the call as before.                                               *)
(***************************************************************************)
C17_Original ==
    \A op \in {"create", "setup", "teardown", "destroy"} :
        C17_Uncontrolled(op) => C17_Unchanged(last.dev)

(***************************************************************************)
(* C17, amended.  While a device's controllable flag is false, setup() and *)
(* teardown() on it change nothing of its state (exists, activation status *)
(* and sizes are the same after the call as before) and run neither the    *)
(* activation nor the deactivation primitive.  create() and destroy() do   *)
(* not look at the flag: they run their primitive and set exists to true   *)
(* and to false as on a controllable device; only the setup() inside       *)
(* create() and the teardown() inside destroy() do nothing.                *)
(***************************************************************************)
C17_Controllable ==
    LET d == last.dev
    IN /\ C17_Uncontrolled("setup") \/ C17_Uncontrolled("teardown") =>
            /\ C17_Unchanged(d) /\ devices[d] = last.pre[d]
            /\ ~Called("_setup", d) /\ ~Called("_teardown", d)
       /\ C17_Uncontrolled("create") /\ last.err = NoErr =>
            /\ ~last.pre[d].exists /\ devices[d].exists
            /\ Called("_create", d) /\ Called("_postCreate", d)
            /\ ~Called("_setup", d)
       /\ C17_Uncontrolled("destroy") /\ last.err = NoErr =>
            /\ last.pre[d].exists /\ ~devices[d].exists
            /\ Called("_destroy", d) /\ Called("_postDestroy", d)
            /\ ~Called("_teardown", d)

\* A device that is not controllable was destroyed while it was active.
C17_Witness ==
    /\ C17_Uncontrolled("destroy") /\ last.err = NoErr
    /\ WasActive(last.dev)
    /\ ~devices[last.dev].exists

\* The last operation was destroy() on an existing protected leaf device.
C18_DestroyProtected ==
    /\ Did("destroy") /\ WasProtected(last.dev)
    /\ last.pre[last.dev].exists /\ last.pre[last.dev].kids = 0

(***************************************************************************)
(* C18, as claimed.  State-changing operations are disallowed on a         *)
(* protected device (protected by its explicit flag or because it is       *)
(* read-only), irrespective of controllability: in particular destroy() on *)
(* an existing protected leaf device does not run the destruction          *)
(* primitive and does not flip exists to false, and teardown() does not    *)
(* deactivate it.                                                          *)
(***************************************************************************)
C18_Original ==
    /\ C18_DestroyProtected =>
          ~Called("_destroy", last.dev) /\ devices[last.dev].exists
    /\ Did("teardown") /\ WasProtected(last.dev) =>
          node[last.dev] = last.prenode[last.dev] /\ ~Called("_teardown", last.dev)

(***************************************************************************)
(* C18, amended.  On a protected device (protected by its explicit flag or *)
(* because it is read-only), irrespective of controllability, teardown()   *)
(* does not deactivate the device, tears down none of its formats and      *)
(* leaves its state as it was.  destroy() is not disallowed: on an         *)
(* existing protected leaf device it skips the deactivation only, runs the *)
(* destruction primitive and flips exists to false.                        *)
(***************************************************************************)
C18_Protected ==
    LET d == last.dev
    IN /\ Did("teardown") /\ WasProtected(d) /\ (last.pre[d].exists \/ last.arg[1]) =>
            /\ last.err = NoErr
            /\ devices[d] = last.pre[d] /\ node[d] = last.prenode[d]
            /\ ~Called("_teardown", d)
            /\ ~Called("format.teardown", d) /\ ~Called("originalFormat.teardown", d)
       /\ C18_DestroyProtected =>
            /\ last.err = NoErr
            /\ Called("teardown", d) /\ ~Called("_teardown", d)
            /\ ~Called("format.teardown", d)
            /\ Called("_destroy", d) /\ Called("_postDestroy", d)
            /\ ~devices[d].exists

\* An active, controllable leaf device that is read-only through its parent
\* was destroyed.
C18_Witness ==
    /\ C18_DestroyProtected /\ WasActive(last.dev)
    /\ last.pre[last.dev].controllable
    /\ ~last.pre[last.dev]._protected /\ ~last.pre[last.dev]._readonly
    /\ ~devices[last.dev].exists

(***************************************************************************)
(* C19.  On the base device type, resizable is false in every reachable    *)
(* state and resize() always raises an UnsupportedOperation error, leaving *)
(* exists, size, targetSize, currentSize and format unchanged.             *)
(***************************************************************************)
C19_BaseResize ==
    \A d \in Devs :
        devices[d].built /\ ~devices[d]._resizable =>
            /\ ~resizable(devices, d)
            /\ Did("resize") /\ last.dev = d =>
                  /\ last.err # NoErr /\ last.err.exc = "DeviceError"
                  /\ last.err.kind = "UnsupportedOperation"
                  /\ devices = last.pre /\ node = last.prenode

\* resize() was refused on an existing device of the base type whose format
\* would allow a resize.
C19_Witness ==
    /\ Did("resize") /\ ~devices[last.dev]._resizable
    /\ devices[last.dev].exists
    /\ devices[last.dev]._format.type = "ext4" /\ devices[last.dev]._format.resizable
    /\ last.err.kind = "UnsupportedOperation"

\* The last operation raised for a violated precondition (what a primitive
\* raises is not one).
C20_Refused == ~Did("idle") /\ last.err # NoErr /\ last.err.exc # "PrimitiveError"

\* The devices the last operation could have been refused for: its own, or,
\* when it found a device not created, that device among its own and its
\* ancestors.
C20_RaisedFor ==
    IF last.err.kind = "NotCreated"
    THEN {a \in {last.dev} \cup ancestors(last.pre, last.dev) : ~last.pre[a].exists}
    ELSE {last.dev}

(***************************************************************************)
(* C20, as claimed.  Every error raised by a precondition violation        *)
(* (create on an existing device, setup/teardown/destroy on a non-existent *)
(* device, destroy of a non-leaf, replacing an active format, a format or  *)
(* size out of bounds, a misaligned or out-of-range targetSize, resize on  *)
(* a non-resizable type) is a device error that carries the name of the    *)
(* device it was raised for.                                               *)
(***************************************************************************)
C20_Original ==
    C20_Refused =>
        /\ last.err.exc = "DeviceError"
        /\ last.err.name \in C20_RaisedFor

(***************************************************************************)
(* C20, amended.  The errors raised for create on an existing device, for  *)
(* setup/teardown/destroy on a non-existent device, for destroy of a       *)
(* non-leaf, for replacing an active format and for a size out of the      *)
(* format's bounds in the size setter are device errors that carry the     *)
(* name of the device they were raised for.  The error for a format whose  *)
(* bounds the device's size violates and the error of resize on a          *)
(* non-resizable type are device errors that carry no device name, and a   *)
(* misaligned or out-of-range targetSize raises a ValueError that carries  *)
(* none.                                                                   *)
(***************************************************************************)
C20_ErrorNames ==
    C20_Refused =>
        LET named == /\ last.err.exc = "DeviceError"
                     /\ last.err.name \in C20_RaisedFor
            unnamed == last.err.name = NoDev
        IN CASE Did("targetSize") ->
                  /\ last.err.exc = "ValueError" /\ unnamed
                  /\ last.err.kind \in {"SizeOutOfBounds", "AlignmentViolation"}
             [] Did("resize") ->
                  /\ last.err.exc \in {"DeviceError", "NotImplementedError"} /\ unnamed
                  /\ ~last.pre[last.dev]._resizable =>
                        last.err = DeviceError("UnsupportedOperation", NoDev)
             [] Did("format") /\ last.err.kind = "SizeOutOfBounds" ->
                  last.err.exc = "DeviceError" /\ unnamed
             [] OTHER ->
                  /\ named
                  /\ last.err.kind \in {"AlreadyExists", "NotCreated", "NotALeaf",
                                        "ActiveFormat", "SizeOutOfBounds"}
                  /\ last.err.kind = "SizeOutOfBounds" => Did("size")

\* create() of a device was refused for its parent, which does not exist,
\* and the error names the parent.
C20_Witness ==
    /\ Did("create") /\ C20_Refused
    /\ last.err.kind = "NotCreated"
    /\ last.err.name # last.dev /\ last.err.name \in ParentSet(last.pre, last.dev)
    /\ ~last.pre[last.dev].exists

\* The value is a format instance: the empty format or a format of a type.
IsFormat(f) ==
    /\ f # None
    /\ f.type \in {"none", "ext4", "swap"}
    /\ f.exists \in BOOLEAN /\ f.status \in BOOLEAN

(***************************************************************************)
(* C21.  In every reachable state, after construction and after any        *)
(* sequence of accepted or rejected format assignments (including          *)
(* assigning None), the device's format is a format instance and never     *)
(* null: assigning None binds the distinguished empty format (type none)   *)
(* to the device's path, and a rejected assignment keeps the previous      *)
(* format instance.                                                        *)
(***************************************************************************)
C21_FormatNeverNull ==
    /\ \A d \in Devs :
          devices[d].built =>
              IsFormat(devices[d]._format) /\ devices[d]._format.device = path(d)
    /\ Did("__init__") /\ last.err = NoErr /\ last.arg[3] = None =>
          devices[last.dev]._format = getFormat(path(last.dev), last.arg[2])
    /\ Did("format") /\ last.err = NoErr /\ last.arg[1] = None =>
          devices[last.dev]._format
              = getFormat(path(last.dev), last.pre[last.dev].exists)
    /\ Did("format") /\ last.err = NoErr /\ last.arg[1] # None =>
          devices[last.dev]._format.type = last.arg[1].type
    /\ Did("format") /\ last.err # NoErr =>
          devices[last.dev]._format = last.pre[last.dev]._format

\* None was assigned to a device that had a filesystem, and bound the empty
\* format.
C21_Witness ==
    /\ Did("format") /\ last.err = NoErr /\ last.arg[1] = None
    /\ last.pre[last.dev]._format.type = "ext4"
    /\ devices[last.dev]._format.type = "none"
    /\ devices[last.dev]._format.device = path(last.dev)

\* The value is beyond a bound that the format declares (a bound of Size(0)
\* is none).
BeyondFormat(fmt, v) ==
    \/ fmt.maxSize # 0 /\ v > fmt.maxSize
    \/ fmt.minSize # 0 /\ v < fmt.minSize

(***************************************************************************)
(* C22.  Setting size directly is bounds-checked against the format's      *)
(* min/max only for non-existent devices: on a non-existent device a value *)
(* above the format's max or below its min raises a device error and       *)
(* leaves the size unchanged; on an existing device every Size value is    *)
(* accepted and stored unchecked, even outside the format's bounds; in     *)
(* both cases targetSize and currentSize are not modified by the size      *)
(* setter.                                                                 *)
(***************************************************************************)
C22_SizeSetter ==
    Did("size") =>
        LET d == last.dev
            rec == last.pre[d]
            v == last.arg[1]
        IN /\ ~rec.exists /\ BeyondFormat(rec._format, v) =>
                /\ last.err = DeviceError("SizeOutOfBounds", d)
                /\ devices = last.pre
           /\ rec.exists \/ ~BeyondFormat(rec._format, v) =>
                /\ last.err = NoErr
                /\ devices = [last.pre EXCEPT ![d]._size = v]
           /\ devices[d]._targetSize = rec._targetSize
           /\ devices[d]._currentSize = rec._currentSize
           /\ node = last.prenode

\* An existing device was given a size beyond its format's bounds.
C22_Witness ==
    /\ Did("size") /\ last.err = NoErr
    /\ last.pre[last.dev].exists
    /\ BeyondFormat(last.pre[last.dev]._format, last.arg[1])
    /\ devices[last.dev]._size = last.arg[1]
    /\ last.pre[last.dev]._size # last.arg[1]

\* The last operation was a teardown() that proceeds.
C23_Proceeds ==
    /\ Did("teardown")
    /\ WasActive(last.dev) /\ last.pre[last.dev].controllable /\ ~WasProtected(last.dev)

\* The calls a teardown() that proceeds makes on its device, in order, up to
\* the deactivation primitive.
C23_Steps ==
    LET d == last.dev
    IN <<<<"teardown", d>>>>
       \o (IF last.pre[d].originalFormat.exists
           THEN <<<<"originalFormat.teardown", d>>>> ELSE <<>>)
       \o (IF last.pre[d]._format.exists THEN <<<<"format.teardown", d>>>> ELSE <<>>)
       \o <<<<"settle", d>>, <<"_teardown", d>>>>

(***************************************************************************)
(* C23.  A teardown() that proceeds (device exists, is active,             *)
(* controllable and not protected) performs its steps in this order: tear  *)
(* down originalFormat if it exists, tear down the current format if it    *)
(* exists, wait for settle, run the deactivation primitive (_teardown),    *)
(* and only then, and only if called with recursive set, tear down the     *)
(* parents; with recursive unset no parent is torn down.                   *)
(***************************************************************************)
C23_TeardownOrder ==
    C23_Proceeds =>
        LET d == last.dev
            n == Len(C23_Steps)
        IN /\ Len(last.trace) >= n
           /\ SubSeq(last.trace, 1, n) = C23_Steps
           /\ last.inp.raises = <<"_teardown", d>> =>
                 Len(last.trace) = n /\ last.err = PrimitiveError("_teardown", d)
           /\ ~last.arg[1] =>
                 /\ Len(last.trace) = n
                 /\ \A p \in Devs \ {d} : devices[p] = last.pre[p] /\ node[p] = last.prenode[p]
           /\ last.arg[1] /\ last.inp.raises # <<"_teardown", d>> =>
                 /\ Len(last.trace) > n /\ last.trace[n + 1] = <<"teardownParents", d>>
                 /\ last.pre[d].parents # <<>> =>
                       /\ Len(last.trace) > n + 1
                       /\ last.trace[n + 2] = <<"teardown", last.pre[d].parents[1]>>

\* A recursive teardown() deactivated the device and, after it, its parent.
C23_Witness ==
    /\ C23_Proceeds /\ last.arg[1] /\ last.err = NoErr
    /\ last.pre[last.dev].originalFormat.exists /\ last.pre[last.dev]._format.exists
    /\ \E p \in ParentSet(last.pre, last.dev) :
          /\ last.prenode[p] /\ ~node[p]
          /\ FirstCall("_teardown", last.dev) < FirstCall("_teardown", p)

\* The position of the last call `ev` on d in the last operation's trace
\* (0 when it was not made).
LastCall(ev, d) ==
    IF Called(ev, d)
    THEN CHOOSE i \in 1..Len(last.trace) :
            /\ last.trace[i] = <<ev, d>>
            /\ \A j \in (i + 1)..Len(last.trace) : last.trace[j] # <<ev, d>>
    ELSE 0

(***************************************************************************)
(* C24.  After every successful create(), exists is true and size,         *)
(* targetSize and currentSize are all equal to the size observed by the    *)
(* probe at that moment (the size planned before creation is overwritten,  *)
(* without passing through the bounds-checked setters); the order inside   *)
(* create is: parents set up, creation primitive, exists set to true,      *)
(* setup() of the device itself, size recomputation, _netdev               *)
(* reconciliation.                                                         *)
(***************************************************************************)
C24_CreatePostcondition ==
    Did("create") /\ last.err = NoErr =>
        LET d == last.dev
            observed == last.inp.obs
            n == Len(last.trace)
        IN /\ ~last.pre[d].exists /\ devices[d].exists
           /\ devices[d]._size = observed
           /\ devices[d]._targetSize = observed
           /\ devices[d]._currentSize = observed
           /\ EffectiveSize(devices[d]) = observed
           /\ last.trace[1] = <<"create", d>> /\ last.trace[2] = <<"setupParents", d>>
           /\ \A p \in ParentSet(last.pre, d) :
                 /\ Called("setup", p)
                 /\ FirstCall("setupParents", d) < FirstCall("setup", p)
                 /\ FirstCall("setup", p) < FirstCall("_create", d)
                 /\ devices[p].exists
           /\ FirstCall("_create", d) = LastCall("_create", d)
           /\ FirstCall("_postCreate", d) = FirstCall("_create", d) + 1
           /\ FirstCall("setup", d) = FirstCall("_postCreate", d) + 1
           /\ FirstCall("setup", d) < LastCall("readCurrentSize", d)
           /\ last.trace[n - 2] = <<"readCurrentSize", d>>
           /\ last.trace[n - 1] = <<"updateSize", d>>
           /\ last.trace[n] = <<"_updateNetDevMountOption", d>>

\* A device planned with a size and a format with bounds was created on a
\* parent that was set up for it, and took the size observed: none.
C24_Witness ==
    /\ Did("create") /\ last.err = NoErr
    /\ last.pre[last.dev]._size = MaxSize /\ last.inp.obs = 0
    /\ last.pre[last.dev]._format.type = "ext4"
    /\ devices[last.dev]._size = 0 /\ devices[last.dev]._targetSize = 0
    /\ \E p \in ParentSet(last.pre, last.dev) : ~last.prenode[p] /\ node[p]

\* The last operation assigned a target size to a device that was not
\* resizable.
C25_Fixed == Did("targetSize") /\ ~resizable(last.pre, last.dev)

\* The current size the setter observed.
C25_Current == currentSize(PreWorld, last.dev).dev[last.dev]._currentSize

(***************************************************************************)
(* C25, as claimed.  For a non-resizable device, minSize and maxSize both  *)
(* equal the observed currentSize, so the targetSize setter accepts no     *)
(* value other than currentSize, in any state (existing or not,            *)
(* currentSize zero or not).                                               *)
(***************************************************************************)
C25_Original ==
    C25_Fixed =>
        /\ minSize(PreWorld, last.dev) = C25_Current
        /\ maxSize(PreWorld, last.dev) = C25_Current
        /\ last.err = NoErr => last.arg[1] = C25_Current

(***************************************************************************)
(* C25, amended.  For a non-resizable device, minSize and maxSize both     *)
(* equal the observed currentSize.  While that size is not zero, the       *)
(* targetSize setter refuses every other value and leaves targetSize as it *)
(* was; while it is zero (as it is for a device that has never existed),   *)
(* neither bound is checked and the setter accepts every value the         *)
(* alignment allows.                                                       *)
(***************************************************************************)
C25_FixedTarget ==
    C25_Fixed =>
        LET d == last.dev
            v == last.arg[1]
        IN /\ minSize(PreWorld, d) = C25_Current
           /\ maxSize(PreWorld, d) = C25_Current
           /\ C25_Current # 0 /\ v # C25_Current =>
                 /\ last.err = ValueError("SizeOutOfBounds")
                 /\ devices[d]._targetSize = last.pre[d]._targetSize
           /\ C25_Current = 0 /\ aligned(last.pre, d, v) = v =>
                 /\ last.err = NoErr
                 /\ devices[d]._targetSize = v
           /\ last.err = NoErr => v = C25_Current \/ C25_Current = 0

\* An existing device of the base type whose current size is not zero was
\* refused a larger target size.
C25_Witness ==
    /\ C25_Fixed /\ last.pre[last.dev].exists
    /\ C25_Current = 1 /\ last.arg[1] = MaxSize
    /\ last.err = ValueError("SizeOutOfBounds")

\* The calls `ev` the last operation made, on any device.
CountCalls(ev) == Cardinality({i \in 1..Len(last.trace) : last.trace[i][1] = ev})

\* The primitive `prim` of the last operation's device raised.
C26_Failed(prim) == last.err = PrimitiveError(prim, last.dev)

(***************************************************************************)
(* C26.  There is no rollback and no retry after a failed primitive: if    *)
(* the creation primitive (_create) raises, create() raises, the           *)
(* post-create hook does not run and exists stays false, while the parents *)
(* set up by the precondition stay set up; if the destruction primitive    *)
(* (_destroy) raises, destroy() raises and exists stays true, while the    *)
(* teardown already performed by the precondition is not undone.           *)
(***************************************************************************)
C26_NoRollback ==
    LET d == last.dev
        n == Len(last.trace)
    IN /\ Did("create") /\ last.inp.raises = <<"_create", d>> /\ Called("_create", d) =>
             /\ C26_Failed("_create")
             /\ last.trace[n] = <<"_create", d>> /\ CountCalls("_create") = 1
             /\ ~Called("_postCreate", d)
             /\ ~last.pre[d].exists /\ ~devices[d].exists
             /\ ~CalledAny("teardown") /\ ~CalledAny("_teardown")
             /\ \A p \in ParentSet(last.pre, d) :
                   /\ Called("setup", p)
                   /\ Called("_setup", p) /\ last.inp.effective => node[p]
                   /\ last.prenode[p] => node[p]
       /\ Did("destroy") /\ last.inp.raises = <<"_destroy", d>> /\ Called("_destroy", d) =>
             /\ C26_Failed("_destroy")
             /\ last.trace[n] = <<"_destroy", d>> /\ CountCalls("_destroy") = 1
             /\ ~Called("_postDestroy", d)
             /\ last.pre[d].exists /\ devices[d].exists
             /\ Called("teardown", d)
             /\ ~CalledAny("setup") /\ ~CalledAny("_setup") /\ ~CalledAny("format.setup")
             /\ Called("_teardown", d) /\ last.inp.effective => ~node[d]
             /\ Called("format.teardown", d) => ~devices[d]._format.status
             /\ Called("originalFormat.teardown", d) => ~devices[d].originalFormat.status
       /\ Did("create") /\ last.err.exc = "PrimitiveError" /\ Called("_postCreate", d) =>
             devices[d].exists

\* The creation primitive raised after a parent was set up, and the parent
\* is still set up.
C26_Witness ==
    /\ Did("create") /\ C26_Failed("_create")
    /\ ~devices[last.dev].exists
    /\ \E p \in ParentSet(last.pre, last.dev) : ~last.prenode[p] /\ Called("_setup", p) /\ node[p]

(***************************************************************************)
(* SpecGraph: a graph of the devices 1..NumDevs of the base type, without   *)
(* sizes or formats, in which a device is constructed as existing only on  *)
(* parents that exist, under create, setup, teardown and destroy with      *)
(* primitives that may raise.  A device has its parents among the devices  *)
(* built before it, so that the graph is acyclic; the last device can have *)
(* an ancestor that it reaches through several parents.                    *)
(***************************************************************************)
GraphArgs(d) ==
    {a \in [size : {0}, fmt : {None}, exists : BOOLEAN, testing : {flags.testing},
            parents : ParentLists(1..(d - 1)), type : {BaseType}] :
        a.exists => \A i \in 1..Len(a.parents) : devices[a.parents[i]].exists}

InitGraph == Start(Devs)

NextGraph ==
    \/ \E d \in Devs : Construct(d, GraphArgs(d), {0})
    \/ \E d \in Devs : Create(d, Primitives, {0})
    \/ \E d \in Devs : Setup(d, Primitives, {0})
    \/ \E d \in Devs : Teardown(d, Primitives, {0})
    \/ \E d \in Devs : Destroy(d, Primitives, {0})
    \/ Continue

SpecGraph == InitGraph /\ [][NextGraph]_vars

\* The calls `ev` the last operation made on device p.
CountCallsOn(ev, p) == Cardinality({i \in 1..Len(last.trace) : last.trace[i] = <<ev, p>>})

\* The number of chains of parents that lead from device d to device p, of at
\* most n links, through the parents of d from the i-th on.
RECURSIVE PathsFrom(_, _, _, _, _)
PathsFrom(dev, d, p, i, n) ==
    IF n = 0 \/ i > Len(dev[d].parents) THEN 0
    ELSE (IF dev[d].parents[i] = p THEN 1 ELSE 0)
         + PathsFrom(dev, dev[d].parents[i], p, 1, n - 1)
         + PathsFrom(dev, d, p, i + 1, n)

Paths(dev, d, p) == PathsFrom(dev, d, p, 1, NumDevs)

(***************************************************************************)
(* C27.  On every finite acyclic parent/child graph (including diamond     *)
(* shapes where an ancestor is reachable through several parents), each of *)
(* create(), setup(), teardown(recursive) and destroy() terminates: it     *)
(* either returns or raises after a number of cascaded parent calls        *)
(* bounded by the graph, never looping.  The bound: setup() and            *)
(* teardown(recursive) call an ancestor at most once per chain of parents  *)
(* that leads to it, create() at most twice, destroy() never.              *)
(***************************************************************************)
C27_Terminates ==
    LET d == last.dev IN
    /\ \A a \in Devs : a \notin ancestors(devices, a)
    /\ Did("setup") =>
          /\ CountCallsOn("setup", d) = 1
          /\ \A p \in Devs \ {d} : CountCallsOn("setup", p) <= Paths(last.pre, d, p)
          /\ ~CalledAny("teardown")
    /\ Did("create") =>
          /\ CountCallsOn("create", d) = 1 /\ CountCallsOn("setup", d) <= 1
          /\ \A p \in Devs \ {d} : CountCallsOn("setup", p) <= 2 * Paths(last.pre, d, p)
          /\ ~CalledAny("teardown")
    /\ Did("teardown") =>
          /\ CountCallsOn("teardown", d) = 1
          /\ \A p \in Devs \ {d} :
                CountCallsOn("teardown", p) <= IF last.arg[1] THEN Paths(last.pre, d, p) ELSE 0
          /\ ~CalledAny("setup")
    /\ Did("destroy") =>
          /\ CountCallsOn("destroy", d) = 1 /\ CountCallsOn("teardown", d) <= 1
          /\ \A p \in Devs \ {d} : CountCallsOn("teardown", p) = 0
          /\ ~CalledAny("setup")

\* setup() of a device returned after it reached an ancestor through two
\* parents and called it once for each.
C27_Witness ==
    /\ Did("setup") /\ last.err = NoErr
    /\ \E p \in Devs :
          /\ Paths(last.pre, last.dev, p) = 2
          /\ CountCallsOn("setup", p) = 2
          /\ Cardinality({q \in ParentSet(last.pre, last.dev) :
                             q = p \/ p \in ancestors(last.pre, q)}) = 2

\* The devices that have p among their parents.
Children(dev, p) == {c \in Devs : dev[c].built /\ p \in ParentSet(dev, c)}

\* The parents of the last operation's device that did not exist before it.
C28_Missing == {p \in ParentSet(last.pre, last.dev) : ~last.pre[p].exists}

(***************************************************************************)
(* C28.  Starting from a graph in which every existing device's parents    *)
(* exist and every parent's child count matches its actual children, any   *)
(* sequence of create() and destroy() calls (without removeHook) keeps the *)
(* invariant that every existing device has only existing parents:         *)
(* create() of a device with a non-existent parent raises before the       *)
(* creation primitive runs and leaves exists false (regardless of          *)
(* controllable), and a parent cannot be destroyed while it still has a    *)
(* child.                                                                  *)
(***************************************************************************)
C28_ExistingParents ==
    LET d == last.dev IN
    /\ \A c \in Devs : devices[c].built /\ devices[c].exists =>
          \A p \in ParentSet(devices, c) : devices[p].exists
    /\ \A p \in Devs : devices[p].built =>
          devices[p].kids = Cardinality(Children(devices, p))
    /\ Did("create") /\ C28_Missing # {} =>
          /\ last.err # NoErr
          /\ last.err.exc = "DeviceError" =>
                last.err.kind = "NotCreated" /\ last.err.name \in C28_Missing
          /\ ~Called("_create", d)
          /\ ~devices[d].exists
    /\ Did("destroy") /\ Children(last.pre, d) # {} /\ last.pre[d].exists =>
          /\ last.err = DeviceError("NotALeaf", d)
          /\ devices[d].exists
          /\ ~Called("_destroy", d)

\* create() of a device was refused for a parent that does not exist and
\* cannot be controlled, after setup() of a parent that exists.
C28_Witness ==
    /\ Did("create") /\ last.err.exc = "DeviceError" /\ last.err.kind = "NotCreated"
    /\ last.err.name \in C28_Missing
    /\ ~last.pre[last.err.name].controllable
    /\ \E q \in ParentSet(last.pre, last.dev) : last.pre[q].exists /\ Called("setup", q)
    /\ ~devices[last.dev].exists

====
